---- MODULE Spec2Model ----
(***************************************************************************)
(* A state-machine model of QuartiCal's delay solver                       *)
(* (quartical/gains/delay/kernel.py) and of the interval mappers that feed *)
(* it.                                                                     *)
(*                                                                         *)
(* Numbers.  float64 values are modelled by exact rationals <<n, d>> (d >  *)
(* 0, lowest terms).  A unit-modulus complex number exp(i*phi) is the      *)
(* record [k |-> "exp", ph |-> phi]; the complex zero is CZero.  Hence the *)
(* identity gain element 1 = exp(i*0) is CExp(R(0)).                       *)
(*                                                                         *)
(* Arrays are functions over 0-based index tuples, as in the source.       *)
(*                                                                         *)
(* Visibilities are symbolic: a visibility is the record                   *)
(* [data |-> <<"V", row, chan>>, minus |-> s] of the observed value and    *)
(* the sequence s of predictions subtracted from it so far (empty for an   *)
(* observed visibility, one prediction for a residual).  The               *)
(* normal-equation buffers JHJ and JHR hold, per solution cell, the set of *)
(* contributions summed into the cell.  The solution of the normal         *)
(* equations (invert) is a value chosen from UpdVals wherever the cell has *)
(* received a contribution, and 0 where it has not.                        *)
(***************************************************************************)
EXTENDS Integers, Sequences, FiniteSets, TLC

\* ------------------------------------------------------------------ bounds
MaxIter == 4
NAnt == 2
NChan == 2
NRow == 1
NDir == 2

\* ------------------------------------------------- rational (float) values
RECURSIVE GCD(_, _)
GCD(a, b) == IF b = 0 THEN a ELSE GCD(b, a % b)

Abs(x) == IF x < 0 THEN -x ELSE x

Norm(n, d) ==
    LET g == GCD(Abs(n), d) IN <<n \div g, d \div g>>

R(n) == <<n, 1>>

RAdd(x, y) == Norm(x[1] * y[2] + y[1] * x[2], x[2] * y[2])

RSub(x, y) == Norm(x[1] * y[2] - y[1] * x[2], x[2] * y[2])

RMul(x, y) == Norm(x[1] * y[1], x[2] * y[2])

\* x / y for y # 0.
RDiv(x, y) ==
    IF y[1] > 0 THEN Norm(x[1] * y[2], x[2] * y[1])
    ELSE Norm(-(x[1] * y[2]), x[2] * (-y[1]))

RLt(x, y) == x[1] * y[2] < y[1] * x[2]

RGt(x, y) == RLt(y, x)

RECURSIVE RSum(_, _)
\* Sum of f[i] over the finite index set S.
RSum(f, S) ==
    IF S = {} THEN R(0)
    ELSE LET i == CHOOSE j \in S : TRUE IN RAdd(f[i], RSum(f, S \ {i}))

\* --------------------------------------------------------- complex values
CExp(phi) == [k |-> "exp", ph |-> phi]

CZero == [k |-> "zero", ph |-> R(0)]

\* |x - y|^2 of two gain elements, by the phase difference: 0 for equal
\* elements, the squared phase difference for two unit-modulus elements.
abs2_diff(x, y) ==
    IF x.k = "exp" /\ y.k = "exp"
    THEN RMul(RSub(x.ph, y.ph), RSub(x.ph, y.ph))
    ELSE IF x.k = y.k THEN R(0) ELSE R(1)

VARIABLES
    corr_mode,      \* literal correlation mode: 1, 2 or 4
    base_args,      \* data, model, weights, flags, a1, a2, gains, gain_flags, maps
    term_args,      \* params, param_flags, chan_freqs
    meta_args,      \* active_term, iters, solve_per, dd_term, stop_frac, stop_crit
    flag_imdry,     \* km1_gain, km1_abs2_diffs, abs2_diffs_trend
    solver_imdry,   \* jhj, jhr, residual, update (+ whether residual is data)
    scaled_cf,      \* chan_freqs / min_freq
    min_freq,
    loop_idx,
    conv_perc,
    pc,             \* the statement of delay_solver that runs next
    ret,            \* the returned term_conv_info
    calls,          \* history: the kernels called so far, in order
    perc_hist,      \* history: conv_perc of every iteration executed
    upd_hist,       \* history: the output of compute_update of every iteration
    entry,          \* history: base_args and term_args as passed to the call
    mp,             \* the interval mapper: inputs, loop position, bins
    cg,             \* add_calibration_graph: options, loop position, maps
    dh,             \* data handling: chunking, flag and weight preprocessing
    gx              \* assembly of the gain data sets of a chain

vars == <<corr_mode, base_args, term_args, meta_args, flag_imdry, solver_imdry,
          scaled_cf, min_freq, loop_idx, conv_perc, pc, ret, calls, perc_hist,
          upd_hist, entry, mp, cg, dh, gx>>

\* The state of delay_solver.
solver_vars ==
    <<corr_mode, base_args, term_args, meta_args, flag_imdry, solver_imdry,
      scaled_cf, min_freq, loop_idx, conv_perc, pc, ret, calls, perc_hist,
      upd_hist, entry>>

\* ------------------------------------------------------------- dimensions
Ants == 0 .. NAnt - 1
Chans == 0 .. NChan - 1
Rows == 0 .. NRow - 1
Dirs == 0 .. NDir - 1

n_gains == Cardinality(DOMAIN base_args.gains)
Terms == DOMAIN base_args.gains
active_term == meta_args.active_term

Corrs(cm) == 0 .. cm - 1

\* Two parameters (phase offset, delay) per parameterisable correlation.
NParam(cm) == IF cm = 1 THEN 2 ELSE 4

\* The on-diagonal correlations of a gain element.
OnDiag(cm) == IF cm = 4 THEN {0, 3} ELSE Corrs(cm)

\* Cells (t, f, a, d) of the active gain and of its parameters.
GainCells == DOMAIN base_args.gains[active_term]
ParamCells == DOMAIN term_args.params[active_term]
n_gdir == IF meta_args.dd_term THEN NDir ELSE 1

set_identity(cm) ==
    [c \in Corrs(cm) |-> IF c \in OnDiag(cm) THEN CExp(R(0)) ELSE CZero]


\* ------------------------------------------------------ solver input sets
CorrModes == {1, 2, 4}
SolvePer == {"antenna", "array"}

\* Outcomes of the normal-equation solve for a cell that has equations.
UpdVals == {R(0), R(2), R(4), R(8)}

\* Contents of a buffer obtained from np.empty and not yet written.
Uninit == <<"uninit">>

\* Channel frequencies of the chunk: 2, 3, 4, ... (the minimum is not 1).
ChanFreq0 == [f \in Chans |-> R(f + 2)]

Data0 ==
    [rf \in Rows \X Chans |-> [data |-> <<"V", rf[1], rf[2]>>, minus |-> <<>>]]

Model0 == [rfd \in Rows \X Chans \X Dirs |-> <<"M", rfd[1], rfd[2], rfd[3]>>]

\* Aggregate flags on entry: nothing flagged, or the last channel flagged.
Flags0(last_chan_flagged) ==
    [rf \in Rows \X Chans |->
        IF last_chan_flagged /\ rf[2] = NChan - 1 THEN 1 ELSE 0]

\* weights == 0 wherever flags # 0.
Weights0(fl) == [rf \in DOMAIN fl |-> IF fl[rf] # 0 THEN 0 ELSE 1]

\* Baseline (0, 1) in every row; an antenna above 1 has no data.
Ant1_0 == [r \in Rows |-> 0]
Ant2_0 == [r \in Rows |-> 1]

\* The active (delay) term has one time interval per row and one gain per
\* channel; its parameters have one interval per f_int channels.  Every
\* other term of the chain is direction-independent with one interval.
TMap0(terms, act) ==
    [i \in {0, 1} |-> [r \in Rows |-> [g \in terms |-> IF g = act THEN r ELSE 0]]]

FMap0(terms, act, f_int) ==
    [i \in {0, 1} |-> [f \in Chans |-> [g \in terms |->
        IF g # act THEN 0 ELSE IF i = 0 THEN f ELSE f \div f_int]]]

DMap0(terms, act, dd) ==
    [g \in terms |-> [d \in Dirs |-> IF g = act /\ dd THEN d ELSE 0]]

GDirs(dd) == IF dd THEN Dirs ELSE {0}

\* A gain on entry that is not what param_to_gain would produce.
Gain0(cm) ==
    [c \in Corrs(cm) |-> IF c \in OnDiag(cm) THEN CExp(R(7)) ELSE CZero]

Gains0(terms, act, dd, cm) ==
    [g \in terms |->
        IF g = act
        THEN [c \in Rows \X Chans \X Ants \X GDirs(dd) |-> Gain0(cm)]
        ELSE [c \in {0} \X {0} \X Ants \X {0} |-> set_identity(cm)]]

GainFlags0(gains) == [g \in DOMAIN gains |-> [c \in DOMAIN gains[g] |-> 0]]

PInts(f_int) == 0 .. ((NChan - 1) \div f_int)

\* Parameters on entry: distinct per interval, antenna and parameter.
Params0(terms, act, dd, cm, f_int) ==
    [g \in terms |->
        IF g = act
        THEN [c \in Rows \X PInts(f_int) \X Ants \X GDirs(dd) |->
                 [i \in 0 .. NParam(cm) - 1 |->
                     R(c[1] + 10 * c[2] + 3 * c[3] + c[4] + i)]]
        ELSE <<>>]

ParamFlags0(params) == [g \in DOMAIN params |-> [c \in DOMAIN params[g] |-> 0]]

NoConvInfo == [conv_iters |-> -1, conv_perc |-> R(-1)]

\* The solver inputs explored: every correlation mode, parameter interval
\* and flag pattern for a single direction-independent term solved per
\* antenna, and every chain length, active term, direction dependence and
\* solve_per for two correlations without flags.
SolverInput(cm, ng, act, dd, sp, f_int, lcf) ==
    \/ ng = 1 /\ ~dd /\ sp = "antenna"
    \/ cm = 2 /\ f_int = NChan /\ ~lcf

InitSolver ==
    \E cm \in CorrModes, ng \in 1 .. 2, dd \in BOOLEAN, sp \in SolvePer,
       it \in 1 .. MaxIter, f_int \in {1, NChan}, lrf \in BOOLEAN :
      \E act \in 0 .. ng - 1 :
        LET terms == 0 .. ng - 1
            g0 == Gains0(terms, act, dd, cm)
            p0 == Params0(terms, act, dd, cm, f_int)
        IN  /\ SolverInput(cm, ng, act, dd, sp, f_int, lrf)
            /\ corr_mode = cm
            /\ base_args = [data |-> Data0,
                            model |-> Model0,
                            weights |-> Weights0(Flags0(lrf)),
                            flags |-> Flags0(lrf),
                            a1 |-> Ant1_0,
                            a2 |-> Ant2_0,
                            gains |-> g0,
                            gain_flags |-> GainFlags0(g0),
                            t_map_arr |-> TMap0(terms, act),
                            f_map_arr |-> FMap0(terms, act, f_int),
                            d_map_arr |-> DMap0(terms, act, dd)]
            /\ term_args = [params |-> p0,
                            param_flags |-> ParamFlags0(p0),
                            chan_freqs |-> ChanFreq0]
            /\ meta_args = [active_term |-> act,
                            iters |-> it,
                            solve_per |-> sp,
                            dd_term |-> dd,
                            stop_frac |-> <<1, 2>>,
                            stop_crit |-> R(10)]
            /\ flag_imdry = <<>>
            /\ solver_imdry = <<>>
            /\ scaled_cf = <<>>
            /\ min_freq = R(0)
            /\ loop_idx = -1
            /\ conv_perc = R(-1)
            /\ pc = "setup"
            /\ ret = NoConvInfo
            /\ calls = <<>>
            /\ perc_hist = <<>>
            /\ upd_hist = <<>>
            /\ entry = [base_args |-> base_args, term_args |-> term_args]
            /\ mp = <<>>
            /\ cg = <<>>
            /\ dh = <<>>
            /\ gx = <<>>

\* --------------------------------------------------------- delay_solver
active_gain == base_args.gains[active_term]
active_gain_flags == base_args.gain_flags[active_term]
active_params == term_args.params[active_term]

\* Spec-modelled values of the gain-flag column: a soft flag is a nonzero
\* value other than the hard flag 1; the trend threshold is "about 2".
SoftFlag == -1
TrendThreshold == 2

RMin(f) == CHOOSE x \in {f[i] : i \in DOMAIN f} :
               \A j \in DOMAIN f : ~RLt(f[j], x)

\* active_params[..., 1::2] *= min_freq
ScaleDelay(p, mf) ==
    [i \in DOMAIN p |-> IF i % 2 = 1 THEN RMul(p[i], mf) ELSE p[i]]

\* Variant that leaves the delays in scaled units.
UnscaleDelay_noop(p, mf) == p

\* active_params[..., 1::2] /= min_freq
UnscaleDelay(p, mf) ==
    [i \in DOMAIN p |-> IF i % 2 = 1 THEN RDiv(p[i], mf) ELSE p[i]]

\* Variant that allocates a residual buffer for every term.
ResidualIsData_never(dd) == FALSE

\* residual = np.empty_like(data) if dd_term else data
ResidualIsData(dd) == ~dd

\* if dd_term or len(gains) > 1: compute_residual_solver(...)
IterEntry ==
    IF meta_args.dd_term \/ n_gains > 1
    THEN "compute_residual_solver" ELSE "compute_jhj_jhr"

\* Lines 71-103: intermediaries, frequency and delay scaling.  The
\* np.empty buffers hold either zeros or leftovers.
Setup ==
    /\ pc = "setup"
    /\ \E junk \in {{}, {Uninit}} :
        solver_imdry' =
            [jhj |-> [c \in ParamCells |-> junk],
             jhr |-> [c \in ParamCells |-> junk],
             residual |-> IF ResidualIsData(meta_args.dd_term) THEN <<>>
                          ELSE [rf \in DOMAIN base_args.data |-> Uninit],
             residual_is_data |-> ResidualIsData(meta_args.dd_term),
             update |-> [c \in ParamCells |->
                            [i \in DOMAIN active_params[c] |-> R(0)]]]
    /\ flag_imdry' =
            [km1_gain |-> active_gain,
             km1_abs2_diffs |-> [c \in GainCells |-> R(0)],
             abs2_diffs_trend |-> [c \in GainCells |-> 0]]
    /\ min_freq' = RMin(term_args.chan_freqs)
    /\ scaled_cf' = [f \in DOMAIN term_args.chan_freqs |->
                        RDiv(term_args.chan_freqs[f], min_freq')]
    /\ term_args' = [term_args EXCEPT !.params[active_term] =
            [c \in ParamCells |-> ScaleDelay(active_params[c], min_freq')]]
    /\ loop_idx' = 0
    /\ pc' = IterEntry
    /\ UNCHANGED <<corr_mode, base_args, meta_args, conv_perc, ret, calls,
                   perc_hist, upd_hist, entry, mp, cg, dh, gx>>

\* The gains of every term seen by visibility (row, f) in direction d.
GainsAt(row, f, d, ant) ==
    [gi \in Terms |->
        base_args.gains[gi][<<base_args.t_map_arr[0][row][gi],
                              base_args.f_map_arr[0][f][gi],
                              ant,
                              base_args.d_map_arr[gi][d]>>]]

\* The predicted visibility of (row, f): sum over directions of the model
\* corrupted by the chain of gains of both antennas.
V_hat(row, f) ==
    [d \in Dirs |->
        [m |-> base_args.model[<<row, f, d>>],
         p |-> GainsAt(row, f, d, base_args.a1[row]),
         q |-> GainsAt(row, f, d, base_args.a2[row])]]

\* The residual buffer as the kernels read it.
ResidualBuf ==
    IF solver_imdry.residual_is_data THEN base_args.data
    ELSE solver_imdry.residual

\* compute_residual_solver: residual[row, f] = data[row, f] - V_hat, written
\* to solver_imdry.residual, which is the data array itself when no buffer
\* was allocated.
compute_residual_solver ==
    /\ pc = "compute_residual_solver"
    /\ LET res == [rf \in DOMAIN base_args.data |->
                      [data |-> base_args.data[rf].data,
                       minus |-> Append(base_args.data[rf].minus,
                                        V_hat(rf[1], rf[2]))]]
       IN  IF solver_imdry.residual_is_data
           THEN /\ base_args' = [base_args EXCEPT !.data = res]
                /\ UNCHANGED solver_imdry
           ELSE /\ solver_imdry' = [solver_imdry EXCEPT !.residual = res]
                /\ UNCHANGED base_args
    /\ calls' = Append(calls, "compute_residual_solver")
    /\ pc' = "compute_jhj_jhr"
    /\ UNCHANGED <<corr_mode, term_args, meta_args, flag_imdry, scaled_cf,
                   min_freq, loop_idx, conv_perc, ret, perc_hist, upd_hist,
                   entry, mp, cg, dh, gx>>

\* The unflagged visibilities (row, f) that accumulate into parameter cell
\* c = (ti, fi, a, d): rows of time interval ti, channels of parameter
\* interval fi, with a = ant1 or a = ant2.
Contributors(c) ==
    {rf \in DOMAIN base_args.flags :
        /\ base_args.flags[rf] = 0
        /\ base_args.t_map_arr[0][rf[1]][active_term] = c[1]
        /\ base_args.f_map_arr[1][rf[2]][active_term] = c[2]
        /\ c[3] \in {base_args.a1[rf[1]], base_args.a2[rf[1]]}}

\* Variant that leaves the buffer as the previous call or np.empty left it.
zeroed_kept(buf) == buf

\* jhj[:] = 0; jhr[:] = 0
zeroed(buf) == [c \in DOMAIN buf |-> {}]

\* compute_jhj_jhr: zero both buffers, then accumulate every unflagged
\* visibility into the cells of its two antennas, for every gain direction.
compute_jhj_jhr ==
    /\ pc = "compute_jhj_jhr"
    /\ solver_imdry' = [solver_imdry EXCEPT
            !.jhj = [c \in ParamCells |->
                        zeroed(solver_imdry.jhj)[c] \cup Contributors(c)],
            !.jhr = [c \in ParamCells |->
                        zeroed(solver_imdry.jhr)[c] \cup
                        {<<rf, ResidualBuf[rf]>> : rf \in Contributors(c)}]]
    /\ calls' = Append(calls, "compute_jhj_jhr")
    /\ pc' = IF meta_args.solve_per = "array"
             THEN "per_array_jhj_jhr" ELSE "compute_update"
    /\ UNCHANGED <<corr_mode, base_args, term_args, meta_args, flag_imdry,
                   scaled_cf, min_freq, loop_idx, conv_perc, ret, perc_hist,
                   upd_hist, entry, mp, cg, dh, gx>>

\* per_array_jhj_jhr: sum JHJ and JHR over the antenna axis and broadcast.
per_array_jhj_jhr ==
    /\ pc = "per_array_jhj_jhr"
    /\ LET over(buf, c) ==
               UNION {buf[<<c[1], c[2], a, c[4]>>] : a \in Ants}
       IN  solver_imdry' = [solver_imdry EXCEPT
               !.jhj = [c \in ParamCells |-> over(solver_imdry.jhj, c)],
               !.jhr = [c \in ParamCells |-> over(solver_imdry.jhr, c)]]
    /\ calls' = Append(calls, "per_array_jhj_jhr")
    /\ pc' = "compute_update"
    /\ UNCHANGED <<corr_mode, base_args, term_args, meta_args, flag_imdry,
                   scaled_cf, min_freq, loop_idx, conv_perc, ret, perc_hist,
                   upd_hist, entry, mp, cg, dh, gx>>

\* invert(jhj, jhr, update): the solution u of the cell's normal equations;
\* a cell without equations divides by zero, which yields 0.
invert(jhj_c, jhr_c, upd_c, u) ==
    [i \in DOMAIN upd_c |-> IF jhj_c = {} THEN R(0) ELSE u]

\* compute_update: every cell of the update buffer is overwritten.
compute_update ==
    /\ pc = "compute_update"
    /\ \E u \in UpdVals :
        solver_imdry' = [solver_imdry EXCEPT !.update =
            [c \in ParamCells |->
                invert(solver_imdry.jhj[c], solver_imdry.jhr[c],
                       solver_imdry.update[c], u)]]
    /\ upd_hist' = Append(upd_hist, solver_imdry'.update)
    /\ calls' = Append(calls, "compute_update")
    /\ pc' = "finalize_update"
    /\ UNCHANGED <<corr_mode, base_args, term_args, meta_args, flag_imdry,
                   scaled_cf, min_freq, loop_idx, conv_perc, ret, perc_hist,
                   entry, mp, cg, dh, gx>>

\* Variant that rotates the gain held so far by the parameter phase.
param_to_gain_accum(p, cf, g, cm) ==
    LET ph(o, d, k) ==
            IF g[k] = CZero THEN CZero
            ELSE CExp(RAdd(g[k].ph, RAdd(RMul(cf, p[d]), p[o])))
    IN  IF cm = 4 THEN [g EXCEPT ![0] = ph(0, 1, 0), ![3] = ph(2, 3, 3)]
        ELSE IF cm = 2 THEN [g EXCEPT ![0] = ph(0, 1, 0), ![1] = ph(2, 3, 1)]
        ELSE [g EXCEPT ![0] = ph(0, 1, 0)]

\* param_to_gain: only the on-diagonal elements are written; p[0], p[2] are
\* phase offsets and p[1], p[3] delays.
param_to_gain(p, cf, g, cm) ==
    LET ph(o, d) == CExp(RAdd(RMul(cf, p[d]), p[o]))
    IN  IF cm = 4 THEN [g EXCEPT ![0] = ph(0, 1), ![3] = ph(2, 3)]
        ELSE IF cm = 2 THEN [g EXCEPT ![0] = ph(0, 1), ![1] = ph(2, 3)]
        ELSE [g EXCEPT ![0] = ph(0, 1)]

\* Variant that takes the full step.
HalfStep_full(u) == u

\* update /= 2
HalfStep(u) == RDiv(u, R(2))

\* Variant that regenerates the gain of every cell, flagged or not.
UpdatedGain_noflag(fl, p, cf, g, cm) == param_to_gain(p, cf, g, cm)

\* Variant that zeroes the gain of a flagged cell.
UpdatedGain_zeroed(fl, p, cf, g, cm) ==
    IF fl = 1 THEN [c \in Corrs(cm) |-> CZero] ELSE param_to_gain(p, cf, g, cm)

\* The gain finalize_update leaves in a cell with flag fl.
UpdatedGain(fl, p, cf, g, cm) ==
    IF fl = 1 THEN set_identity(cm) ELSE param_to_gain(p, cf, g, cm)

\* The parameter cell gain cell c = (t, f, a, d) is generated from.
ParamCellOf(c) ==
    <<c[1],
      base_args.f_map_arr[1][c[2]][active_term],
      c[3],
      base_args.d_map_arr[active_term][c[4]]>>

\* finalize_update: halve the update in place, add it to the parameters,
\* regenerate every gain from the parameters.
finalize_update ==
    /\ pc = "finalize_update"
    /\ solver_imdry' = [solver_imdry EXCEPT !.update =
            [c \in ParamCells |->
                [i \in DOMAIN solver_imdry.update[c] |->
                    HalfStep(solver_imdry.update[c][i])]]]
    /\ term_args' = [term_args EXCEPT !.params[active_term] =
            [c \in ParamCells |->
                [i \in DOMAIN active_params[c] |->
                    RAdd(active_params[c][i], solver_imdry'.update[c][i])]]]
    /\ base_args' = [base_args EXCEPT !.gains[active_term] =
            [c \in GainCells |->
                UpdatedGain(active_gain_flags[c],
                            term_args'.params[active_term][ParamCellOf(c)],
                            scaled_cf[c[2]],
                            active_gain[c],
                            corr_mode)]]
    /\ calls' = Append(calls, "finalize_update")
    /\ pc' = "update_gain_flags"
    /\ UNCHANGED <<corr_mode, meta_args, flag_imdry, scaled_cf, min_freq,
                   loop_idx, conv_perc, ret, perc_hist, upd_hist, entry, mp, cg, dh, gx>>

\* A gain cell (t, f, a, d) is missing when no unflagged visibility of its
\* interval involves antenna a.
Missing(c) ==
    ~ \E rf \in DOMAIN base_args.flags :
        /\ base_args.flags[rf] = 0
        /\ base_args.t_map_arr[0][rf[1]][active_term] = c[1]
        /\ base_args.f_map_arr[0][rf[2]][active_term] = c[2]
        /\ c[3] \in {base_args.a1[rf[1]], base_args.a2[rf[1]]}

\* Sum over the correlations of |G - G_prev|^2 at cell c.
Abs2Diff(c) ==
    RSum([k \in Corrs(corr_mode) |->
              abs2_diff(active_gain[c][k], flag_imdry.km1_gain[c][k])],
         Corrs(corr_mode))

\* update_gain_flags: hard-flagged cells are skipped; a missing cell is
\* flagged and set to identity; a cell whose change is below the stop
\* criterion is converged; a cell whose change grew is diverging and is
\* soft flagged once its trend exceeds the threshold.  Returns the
\* converged fraction of the unflagged cells (0 when there are none).
update_gain_flags ==
    /\ pc = "update_gain_flags"
    /\ LET hard(c) == active_gain_flags[c] = 1
           skip(c) == hard(c) \/ Missing(c)
           cnvgd(c) == ~skip(c) /\ RLt(Abs2Diff(c), meta_args.stop_crit)
           dvrg(c) == /\ ~skip(c)
                      /\ ~cnvgd(c)
                      /\ RGt(Abs2Diff(c), flag_imdry.km1_abs2_diffs[c])
           trend(c) == flag_imdry.abs2_diffs_trend[c]
                       + (IF cnvgd(c) THEN -1 ELSE IF dvrg(c) THEN 1 ELSE 0)
           new_flags == [c \in GainCells |->
                            IF skip(c) THEN 1
                            ELSE IF dvrg(c) /\ trend(c) > TrendThreshold
                            THEN SoftFlag
                            ELSE active_gain_flags[c]]
           n_cnvgd == Cardinality({c \in GainCells : cnvgd(c)})
           n_unflagged == Cardinality({c \in GainCells : new_flags[c] # 1})
       IN  /\ base_args' = [base_args EXCEPT
                !.gain_flags[active_term] = new_flags,
                !.gains[active_term] =
                    [c \in GainCells |->
                        IF Missing(c) /\ ~hard(c)
                        THEN set_identity(corr_mode) ELSE active_gain[c]]]
           /\ flag_imdry' =
                [km1_gain |-> base_args'.gains[active_term],
                 km1_abs2_diffs |-> [c \in GainCells |->
                     IF skip(c) THEN flag_imdry.km1_abs2_diffs[c]
                     ELSE Abs2Diff(c)],
                 abs2_diffs_trend |-> [c \in GainCells |-> trend(c)]]
           /\ conv_perc' = IF n_unflagged = 0 THEN R(0)
                           ELSE Norm(n_cnvgd, n_unflagged)
    /\ perc_hist' = Append(perc_hist, conv_perc')
    /\ calls' = Append(calls, "update_gain_flags")
    /\ pc' = "stop_test"
    /\ UNCHANGED <<corr_mode, term_args, meta_args, solver_imdry, scaled_cf,
                   min_freq, loop_idx, ret, upd_hist, entry, mp, cg, dh, gx>>

\* Variant of the stop test that also stops on equality.
StopNow_ge(cp, stop_frac) == ~RLt(cp, stop_frac)

\* if conv_perc > meta_args.stop_frac: break
StopNow(cp, stop_frac) == RGt(cp, stop_frac)

\* Lines 143-144 and the loop header: leave the loop on convergence or
\* after max_iter iterations, otherwise start the next iteration.
stop_test ==
    /\ pc = "stop_test"
    /\ \/ /\ StopNow(conv_perc, meta_args.stop_frac)
          /\ pc' = "finalize_gain_flags"
          /\ UNCHANGED loop_idx
       \/ /\ ~StopNow(conv_perc, meta_args.stop_frac)
          /\ loop_idx + 1 < meta_args.iters
          /\ loop_idx' = loop_idx + 1
          /\ pc' = IterEntry
       \/ /\ ~StopNow(conv_perc, meta_args.stop_frac)
          /\ loop_idx + 1 >= meta_args.iters
          /\ pc' = "finalize_gain_flags"
          /\ UNCHANGED loop_idx
    /\ UNCHANGED <<corr_mode, base_args, term_args, meta_args, flag_imdry,
                   solver_imdry, scaled_cf, min_freq, conv_perc, ret, calls,
                   perc_hist, upd_hist, entry, mp, cg, dh, gx>>

\* finalize_gain_flags: a soft flag becomes a hard flag (and the gain the
\* identity) when the trend is still above the threshold, else it is removed.
finalize_gain_flags ==
    /\ pc = "finalize_gain_flags"
    /\ LET promote(c) == /\ active_gain_flags[c] = SoftFlag
                         /\ flag_imdry.abs2_diffs_trend[c] > TrendThreshold
       IN  base_args' = [base_args EXCEPT
               !.gain_flags[active_term] =
                   [c \in GainCells |->
                       IF active_gain_flags[c] = SoftFlag
                       THEN (IF promote(c) THEN 1 ELSE 0)
                       ELSE active_gain_flags[c]],
               !.gains[active_term] =
                   [c \in GainCells |->
                       IF promote(c) THEN set_identity(corr_mode)
                       ELSE active_gain[c]]]
    /\ calls' = Append(calls, "finalize_gain_flags")
    /\ pc' = "gain_flags_to_param_flags"
    /\ UNCHANGED <<corr_mode, term_args, meta_args, flag_imdry, solver_imdry,
                   scaled_cf, min_freq, loop_idx, conv_perc, ret, perc_hist,
                   upd_hist, entry, mp, cg, dh, gx>>

\* Variant that propagates the gain flags for every term.
AfterParamFlags_always(dd) == "apply_gain_flags"

\* if not dd_term: apply_gain_flags(...)
AfterParamFlags(dd) == IF ~dd THEN "apply_gain_flags" ELSE "return"

\* gain_flags_to_param_flags: a parameter cell is flagged when every gain
\* cell generated from it is flagged.
gain_flags_to_param_flags ==
    /\ pc = "gain_flags_to_param_flags"
    /\ term_args' = [term_args EXCEPT !.param_flags[active_term] =
            [p \in ParamCells |->
                IF \A c \in GainCells :
                       ParamCellOf(c) = p => active_gain_flags[c] = 1
                THEN 1 ELSE 0]]
    /\ calls' = Append(calls, "gain_flags_to_param_flags")
    /\ pc' = AfterParamFlags(meta_args.dd_term)
    /\ UNCHANGED <<corr_mode, base_args, meta_args, flag_imdry, solver_imdry,
                   scaled_cf, min_freq, loop_idx, conv_perc, ret, perc_hist,
                   upd_hist, entry, mp, cg, dh, gx>>

\* Variant that counts the flagged gains up in the data flag.
AppliedFlag_add(fl, hit) == IF hit THEN fl + 1 ELSE fl

\* The data flag of a visibility whose gain cells are (hit) or are not hard
\* flagged.
AppliedFlag(fl, hit) == IF hit THEN 1 ELSE fl

\* apply_gain_flags: a visibility is flagged when the gain cell of either of
\* its antennas is hard flagged (direction-independent terms only).
apply_gain_flags ==
    /\ pc = "apply_gain_flags"
    /\ LET cell(rf, ant) ==
               <<base_args.t_map_arr[0][rf[1]][active_term],
                 base_args.f_map_arr[0][rf[2]][active_term], ant, 0>>
       IN  base_args' = [base_args EXCEPT !.flags =
               [rf \in DOMAIN base_args.flags |->
                   AppliedFlag(base_args.flags[rf],
                       \/ active_gain_flags[cell(rf, base_args.a1[rf[1]])] = 1
                       \/ active_gain_flags[cell(rf, base_args.a2[rf[1]])] = 1)]]
    /\ calls' = Append(calls, "apply_gain_flags")
    /\ pc' = "return"
    /\ UNCHANGED <<corr_mode, term_args, meta_args, flag_imdry, solver_imdry,
                   scaled_cf, min_freq, loop_idx, conv_perc, ret, perc_hist,
                   upd_hist, entry, mp, cg, dh, gx>>

\* Lines 164-166: undo the delay scaling, return the convergence info.
Return ==
    /\ pc = "return"
    /\ term_args' = [term_args EXCEPT !.params[active_term] =
            [c \in ParamCells |-> UnscaleDelay(active_params[c], min_freq)]]
    /\ ret' = [conv_iters |-> loop_idx + 1, conv_perc |-> conv_perc]
    /\ pc' = "done"
    /\ UNCHANGED <<corr_mode, base_args, meta_args, flag_imdry, solver_imdry,
                   scaled_cf, min_freq, loop_idx, conv_perc, calls, perc_hist,
                   upd_hist, entry, mp, cg, dh, gx>>

NextSolver ==
    \/ Setup
    \/ compute_residual_solver
    \/ compute_jhj_jhr
    \/ per_array_jhj_jhr
    \/ compute_update
    \/ finalize_update
    \/ update_gain_flags
    \/ stop_test
    \/ finalize_gain_flags
    \/ gain_flags_to_param_flags
    \/ apply_gain_flags
    \/ Return

SpecSolver == InitSolver /\ [][NextSolver]_vars

\* The finalisation of lines 146-162 run once more on the chunk the solver
\* has returned: the state it starts from is kept in gx, and the pass ends
\* before the scaling of the delays would be undone again.
Finalisations ==
    Cardinality({i \in 1 .. Len(calls) : calls[i] = "finalize_gain_flags"})

Refinalise ==
    /\ pc = "done"
    /\ Finalisations = 1
    /\ gx' = [base_args |-> base_args, term_args |-> term_args]
    /\ pc' = "finalize_gain_flags"
    /\ UNCHANGED <<corr_mode, base_args, term_args, meta_args, flag_imdry,
                   solver_imdry, scaled_cf, min_freq, loop_idx, conv_perc,
                   ret, calls, perc_hist, upd_hist, entry, mp, cg, dh>>

NextRefinal ==
    \/ NextSolver /\ ~(pc = "return" /\ Finalisations = 2)
    \/ Refinalise

SpecRefinal == InitSolver /\ [][NextRefinal]_vars

\* -------------------------------------------------------- interval mapper
\* The mapper turns the widths of the channels (the durations of the unique
\* times) of a chunk and a requested interval into bin numbers.  Widths and
\* float intervals are whole multiples of a common unit, so sums are exact.
\* An interval is the record [float |-> is it a float, v |-> its value].
MaxChan == 4
MaxWidth == 3
MaxIvl == 5

\* delay_solver is not running.
SolverIdle ==
    /\ corr_mode = 0
    /\ base_args = <<>>
    /\ term_args = <<>>
    /\ meta_args = <<>>
    /\ flag_imdry = <<>>
    /\ solver_imdry = <<>>
    /\ scaled_cf = <<>>
    /\ min_freq = R(0)
    /\ loop_idx = -1
    /\ conv_perc = R(-1)
    /\ pc = "idle"
    /\ ret = NoConvInfo
    /\ calls = <<>>
    /\ perc_hist = <<>>
    /\ upd_hist = <<>>
    /\ entry = <<>>

\* np.arange(n), np.zeros(n)
arange(n) == [i \in 0 .. n - 1 |-> i]

zeros(n) == [i \in 0 .. n - 1 |-> 0]

WidthVectors == UNION {[0 .. n - 1 -> 1 .. MaxWidth] : n \in 1 .. MaxChan}

Intervals == [float : BOOLEAN, v : 1 .. MaxIvl]

InitMapper ==
    /\ SolverIdle
    /\ cg = <<>>
    /\ dh = <<>>
    /\ gx = <<>>
    /\ \E w \in WidthVectors, ivl \in Intervals, axis \in {"freq", "time"} :
        mp = [pc |-> "call",
              axis |-> axis,
              widths |-> w,
              interval |-> ivl,
              n_chan |-> Cardinality(DOMAIN w),
              f_map_arr |-> <<>>,
              t_bin |-> <<>>,
              i |-> 0,
              net_ivl |-> 0,
              bin_num |-> 0]

\* n_chan = chan_freqs.size; f_map_arr = np.zeros((2, n_chan)); then the
\* branch on isinstance(f_int, float).
make_f_maps_begin ==
    /\ mp.pc = "call"
    /\ mp.axis = "freq"
    /\ mp' = [mp EXCEPT !.f_map_arr = [r \in {0, 1} |-> zeros(mp.n_chan)],
                        !.i = 0,
                        !.net_ivl = 0,
                        !.bin_num = 0,
                        !.pc = IF mp.interval.float THEN "loop"
                               ELSE "floor_divide"]
    /\ UNCHANGED <<solver_vars, cg, dh, gx>>

\* Variant that closes a bin only once the sum exceeds the interval.
Reached_strict(net_ivl, f_int) == net_ivl > f_int

\* if net_ivl >= f_int
Reached(net_ivl, f_int) == net_ivl >= f_int

\* Variant that skips a bin number.
NextBin_skip(bin_num) == bin_num + 2

\* bin_num += 1
NextBin(bin_num) == bin_num + 1

\* One pass of the body of: for i, ivl in enumerate(chan_widths)
make_f_maps_loop ==
    /\ mp.pc = "loop"
    /\ LET i == mp.i
           net_ivl == mp.net_ivl + mp.widths[i]
           closes == Reached(net_ivl, mp.interval.v)
       IN  mp' = [mp EXCEPT
                    !.f_map_arr[1][i] = mp.bin_num,
                    !.net_ivl = IF closes THEN 0 ELSE net_ivl,
                    !.bin_num = IF closes THEN NextBin(mp.bin_num)
                                ELSE mp.bin_num,
                    !.i = i + 1,
                    !.pc = IF i + 1 < mp.n_chan THEN "loop" ELSE "gain_map"]
    /\ UNCHANGED <<solver_vars, cg, dh, gx>>

\* f_map_arr[1, :] = np.arange(n_chan)//f_int
make_f_maps_floor_divide ==
    /\ mp.pc = "floor_divide"
    /\ mp' = [mp EXCEPT
                !.f_map_arr[1] =
                    [i \in 0 .. mp.n_chan - 1 |->
                        arange(mp.n_chan)[i] \div mp.interval.v],
                !.pc = "gain_map"]
    /\ UNCHANGED <<solver_vars, cg, dh, gx>>

\* f_map_arr[0, :] = np.arange(n_chan); return f_map_arr
make_f_maps_return ==
    /\ mp.pc = "gain_map"
    /\ mp' = [mp EXCEPT !.f_map_arr[0] = arange(mp.n_chan), !.pc = "done"]
    /\ UNCHANGED <<solver_vars, cg, dh, gx>>

\* The time binner: consecutive unique times accumulate until t_int of them
\* have been grouped (integer interval) or their summed duration reaches
\* t_int (float interval); the final bin is kept even if short.
RECURSIVE t_binner(_, _, _, _, _, _)
t_binner(utime_intervals, t_int, i, acc, bin_num, out) ==
    IF i \notin DOMAIN utime_intervals THEN out
    ELSE LET a == acc + (IF t_int.float THEN utime_intervals[i] ELSE 1)
         IN  IF a >= t_int.v
             THEN t_binner(utime_intervals, t_int, i + 1, 0, bin_num + 1,
                           out @@ (i :> bin_num))
             ELSE t_binner(utime_intervals, t_int, i + 1, a, bin_num,
                           out @@ (i :> bin_num))

make_t_binnings ==
    /\ mp.pc = "call"
    /\ mp.axis = "time"
    /\ mp' = [mp EXCEPT
                !.t_bin = t_binner(mp.widths, mp.interval, 0, 0, 0, <<>>),
                !.pc = "done"]
    /\ UNCHANGED <<solver_vars, cg, dh, gx>>

NextMapper ==
    \/ make_f_maps_begin
    \/ make_f_maps_loop
    \/ make_f_maps_floor_divide
    \/ make_f_maps_return
    \/ make_t_binnings

SpecMapper == InitMapper /\ [][NextMapper]_vars

\* ------------------------------------------- add_calibration_graph maps
\* The per-term loop of add_calibration_graph that builds the time,
\* frequency and direction maps of one chunk, and the stacking after it.
MaxTerms == 2
MaxDir == 3
MaxOptIvl == 2
GraphRows == 3
GraphChan == 3

\* The options of one term; an interval of 0 means the whole axis.
TermOpts == [time_interval : 0 .. MaxOptIvl,
             freq_interval : 0 .. MaxOptIvl,
             direction_dependent : BOOLEAN]

Chains == UNION {[1 .. n -> TermOpts] : n \in 1 .. MaxTerms}

RECURSIVE SeqSum(_)
\* sum(...) of a tuple of integers.
SeqSum(q) == IF q = <<>> THEN 0 ELSE q[1] + SeqSum(Tail(q))

\* The state add_calibration_graph starts its term loop in, for a data set
\* whose rows fall into time chunks of utime_chunks unique times each,
\* every unique time with rows_per_time rows, and whose channels fall into
\* chunks of chan_chunks channels.  utime_ind is the per-chunk index of the
\* unique time of every row (blockwise_unique, return_inverse).
GraphInput(opts, n_dir, utime_chunks, rows_per_time, chan_chunks) ==
    [pc |-> "term_loop",
     opts |-> opts,
     n_dir |-> n_dir,
     n_row |-> SeqSum(utime_chunks) * rows_per_time,
     n_chan |-> SeqSum(chan_chunks),
     utime_chunks |-> utime_chunks,
     chan_chunks |-> chan_chunks,
     utime_ind |-> [c \in DOMAIN utime_chunks |->
                       [r \in 0 .. utime_chunks[c] * rows_per_time - 1 |->
                           r \div rows_per_time]],
     term |-> 1,
     t_maps |-> <<>>,
     f_maps |-> <<>>,
     d_maps |-> <<>>,
     gain_shape_list |-> <<>>,
     gain_chunk_list |-> <<>>,
     t_map_arr |-> <<>>,
     f_map_arr |-> <<>>,
     d_map_arr |-> <<>>,
     tipc |-> <<>>,
     fipc |-> <<>>]

InitGraph ==
    /\ SolverIdle
    /\ mp = <<>>
    /\ dh = <<>>
    /\ gx = <<>>
    /\ \E opts \in Chains, n_dir \in 1 .. MaxDir :
        cg = GraphInput(opts, n_dir, <<GraphRows>>, 1, <<GraphChan>>)

\* np.floor_divide(x, ivl or full): an interval of 0 is the whole axis.
floor_divide(x, ivl, full) == x \div (IF ivl # 0 THEN ivl ELSE full)

\* Variant that rounds the number of intervals down.
n_int_per_chunk_floor(n, ivl) == IF ivl # 0 THEN n \div ivl ELSE 1

\* int(np.ceil(n/ivl)) if ivl else 1
n_int_per_chunk(n, ivl) == IF ivl # 0 THEN (n + ivl - 1) \div ivl ELSE 1

\* Variant that collapses the directions of every term.
d_map_collapsed(n_dir, dd_term) == zeros(n_dir)

\* list(range(n_dir)) if dd_term else [0]*n_dir
d_map(n_dir, dd_term) == IF dd_term THEN arange(n_dir) ELSE zeros(n_dir)

\* dtype=np.uint32: a value in 0 .. 2^32 - 1 is kept; a negative one wraps
\* to 2^32 + x, written symbolically since it exceeds the integers of TLC.
uint32(x) == IF x >= 0 THEN x ELSE <<"2^32 +", x>>

\* One pass of the body of: for term in opts.solver_gain_terms
term_loop ==
    /\ cg.pc = "term_loop"
    /\ LET o == cg.opts[cg.term]
           n_t_int_per_chunk ==
               [c \in DOMAIN cg.utime_chunks |->
                   n_int_per_chunk(cg.utime_chunks[c], o.time_interval)]
           n_f_int_per_chunk ==
               [c \in DOMAIN cg.chan_chunks |->
                   n_int_per_chunk(cg.chan_chunks[c], o.freq_interval)]
           gain_shape ==
               [n_t_int |-> SeqSum(n_t_int_per_chunk),
                n_f_int |-> SeqSum(n_f_int_per_chunk),
                n_dir |-> IF o.direction_dependent THEN cg.n_dir ELSE 1]
           t_map == [c \in DOMAIN cg.utime_ind |->
                        [r \in DOMAIN cg.utime_ind[c] |->
                            uint32(floor_divide(cg.utime_ind[c][r],
                                                o.time_interval, cg.n_row))]]
           f_map == [c \in DOMAIN cg.chan_chunks |->
                        [i \in 0 .. cg.chan_chunks[c] - 1 |->
                            uint32(floor_divide(i, o.freq_interval,
                                                cg.n_chan))]]
       IN  cg' = [cg EXCEPT
                    !.gain_shape_list = Append(cg.gain_shape_list, gain_shape),
                    !.gain_chunk_list =
                        Append(cg.gain_chunk_list,
                               [t |-> n_t_int_per_chunk,
                                f |-> n_f_int_per_chunk]),
                    !.t_maps = Append(cg.t_maps, t_map),
                    !.f_maps = Append(cg.f_maps, f_map),
                    !.d_maps = Append(cg.d_maps,
                                      d_map(cg.n_dir, o.direction_dependent)),
                    !.term = cg.term + 1,
                    !.pc = IF cg.term < Len(cg.opts) THEN "term_loop"
                           ELSE "stack"]
    /\ UNCHANGED <<solver_vars, mp, dh, gx>>

\* t_map_arr = da.stack(t_maps, axis=1); f_map_arr = da.stack(f_maps,
\* axis=1), chunk by chunk; d_map_arr = np.array(d_maps, dtype=np.uint32)
stack_maps ==
    /\ cg.pc = "stack"
    /\ LET n_term == Len(cg.opts)
       IN  cg' = [cg EXCEPT
                    !.t_map_arr = [c \in DOMAIN cg.utime_ind |->
                                      [r \in DOMAIN cg.utime_ind[c] |->
                                          [g \in 0 .. n_term - 1 |->
                                              cg.t_maps[g + 1][c][r]]]],
                    !.f_map_arr = [c \in DOMAIN cg.chan_chunks |->
                                      [i \in 0 .. cg.chan_chunks[c] - 1 |->
                                          [g \in 0 .. n_term - 1 |->
                                              cg.f_maps[g + 1][c][i]]]],
                    !.d_map_arr = [g \in 0 .. n_term - 1 |->
                                      [d \in DOMAIN cg.d_maps[g + 1] |->
                                          uint32(cg.d_maps[g + 1][d])]],
                    !.pc = "done"]
    /\ UNCHANGED <<solver_vars, mp, dh, gx>>

\* arr[:, -1:, :] + 1 of one chunk of a stacked map
last_plus_one(arr) ==
    LET last == CHOOSE r \in DOMAIN arr : \A q \in DOMAIN arr : q <= r
    IN  [g \in DOMAIN arr[last] |-> arr[last][g] + 1]

\* compute_interval_chunking: the number of solution intervals of every
\* chunk and term, read off the stacked maps.
compute_interval_chunking ==
    /\ cg.pc = "done"
    /\ cg' = [cg EXCEPT
                !.tipc = [c \in DOMAIN cg.t_map_arr |->
                             last_plus_one(cg.t_map_arr[c])],
                !.fipc = [c \in DOMAIN cg.f_map_arr |->
                             last_plus_one(cg.f_map_arr[c])],
                !.pc = "chunked"]
    /\ UNCHANGED <<solver_vars, mp, dh, gx>>

NextGraph ==
    \/ term_loop
    \/ stack_maps
    \/ compute_interval_chunking

SpecGraph == InitGraph /\ [][NextGraph]_vars

\* Data sets of several time and frequency chunks.  Channel chunks have one
\* size, the last one the remainder; time chunks have any sizes.  The
\* intervals of a term are twice those of the term before it.
MaxChunks == 2
MaxChunkLen == 3
RowsPerTime == 2

Chunkings == UNION {[1 .. n -> 1 .. MaxChunkLen] : n \in 1 .. MaxChunks}

UniformChunkings ==
    {q \in Chunkings : \A c \in 1 .. Len(q) - 1 : q[c] = q[1] /\ q[Len(q)] <= q[1]}

DoublingChains ==
    {opts \in Chains :
        /\ \A k \in DOMAIN opts : ~opts[k].direction_dependent
        /\ \A k \in 2 .. Len(opts) :
            /\ opts[k].time_interval = 2 * opts[k - 1].time_interval
            /\ opts[k].freq_interval = 2 * opts[k - 1].freq_interval}

InitChunks ==
    /\ SolverIdle
    /\ mp = <<>>
    /\ dh = <<>>
    /\ gx = <<>>
    /\ \E opts \in DoublingChains, ut \in Chunkings, ch \in UniformChunkings :
        cg = GraphInput(opts, 1, ut, RowsPerTime, ch)

SpecChunks == InitChunks /\ [][NextGraph]_vars

\* ---------------------------------------------------- compute_chunking
\* integer_chunking of compute_chunking: the TIME column of a data set
\* (sorted, as it is read with index_cols=("TIME",)) is cut into chunks of
\* time_chunk unique times.  numpy arrays are sequences here; positions
\* held in chunk_starts are 0-based as in the source.
MaxUtime == 4
MaxCount == 2
MaxTimeChunk == 3

RECURSIVE Repeat(_, _)
\* n copies of x.
Repeat(x, n) == IF n = 0 THEN <<>> ELSE <<x>> \o Repeat(x, n - 1)

RECURSIVE TimeColumn(_, _)
\* The sorted TIME column in which the k-th unique time, of value 10 * k,
\* has counts[k] rows.
TimeColumn(counts, k) ==
    IF k > Len(counts) THEN <<>>
    ELSE Repeat(10 * k, counts[k]) \o TimeColumn(counts, k + 1)

RowCounts == UNION {[1 .. n -> 1 .. MaxCount] : n \in 1 .. MaxUtime}

InitChunking ==
    /\ SolverIdle
    /\ mp = <<>>
    /\ cg = <<>>
    /\ gx = <<>>
    /\ \E counts \in RowCounts, time_chunk \in 0 .. MaxTimeChunk :
        dh = [pc |-> "unique",
              time_col |-> TimeColumn(counts, 1),
              input_ms_time_chunk |-> time_chunk,
              time_chunk |-> time_chunk,
              utimes |-> <<>>,
              ucounts |-> <<>>,
              n_utime |-> 0,
              utime_chunks |-> <<>>,
              chunk_starts |-> <<>>,
              row_chunks |-> <<>>,
              chunking |-> <<>>]

RECURSIVE SortedSeq(_)
\* The elements of a finite set of numbers in increasing order.
SortedSeq(S) ==
    IF S = {} THEN <<>>
    ELSE LET m == CHOOSE x \in S : \A y \in S : x <= y
         IN  <<m>> \o SortedSeq(S \ {m})

\* np.unique(col, return_counts=True)
np_unique(col) ==
    LET utimes == SortedSeq({col[r] : r \in DOMAIN col})
    IN  [utimes |-> utimes,
         ucounts |-> [k \in DOMAIN utimes |->
                         Cardinality({r \in DOMAIN col : col[r] = utimes[k]})]]

\* utimes, ucounts = np.unique(...); n_utime = utimes.size;
\* time_chunk = time_chunk or n_utime
integer_chunking_unique ==
    /\ dh.pc = "unique"
    /\ LET u == np_unique(dh.time_col)
           n_utime == Len(u.utimes)
       IN  dh' = [dh EXCEPT
                    !.utimes = u.utimes,
                    !.ucounts = u.ucounts,
                    !.n_utime = n_utime,
                    !.time_chunk = IF dh.time_chunk # 0 THEN dh.time_chunk
                                   ELSE n_utime,
                    !.pc = "utime_chunks"]
    /\ UNCHANGED <<solver_vars, mp, cg, gx>>

\* Variant that drops the remainder.
last_chunk_none(n_utime, time_chunk) == 0

\* last_chunk = n_utime % time_chunk
last_chunk(n_utime, time_chunk) == n_utime % time_chunk

\* utime_chunks = [time_chunk] * (n_utime // time_chunk), plus
\* [last_chunk] if last_chunk is not 0
integer_chunking_utime_chunks ==
    /\ dh.pc = "utime_chunks"
    /\ LET last == last_chunk(dh.n_utime, dh.time_chunk)
       IN  dh' = [dh EXCEPT
                    !.utime_chunks =
                        Repeat(dh.time_chunk, dh.n_utime \div dh.time_chunk)
                        \o (IF last # 0 THEN <<last>> ELSE <<>>),
                    !.pc = "row_chunks"]
    /\ UNCHANGED <<solver_vars, mp, cg, gx>>

RECURSIVE arange3(_, _, _)
\* np.arange(start, stop, step) for step > 0
arange3(start, stop, step) ==
    IF start >= stop THEN <<>>
    ELSE <<start>> \o arange3(start + step, stop, step)

\* a[i:j] summed, for 0-based positions i <= j of the sequence a
SliceSum(a, i, j) == SeqSum(SubSeq(a, i + 1, j))

\* np.add.reduceat(a, starts): the sum of a[starts[k]:starts[k+1]], to the
\* end of a for the last start, and a[starts[k]] alone where the next start
\* is not larger.
reduceat(a, starts) ==
    [k \in DOMAIN starts |->
        IF k = Len(starts) THEN SliceSum(a, starts[k], Len(a))
        ELSE IF starts[k] < starts[k + 1]
        THEN SliceSum(a, starts[k], starts[k + 1])
        ELSE a[starts[k] + 1]]

\* chunk_starts = np.arange(0, n_utime, time_chunk); row_chunks =
\* np.add.reduceat(ucounts, chunk_starts); return the two rows stacked
integer_chunking_row_chunks ==
    /\ dh.pc = "row_chunks"
    /\ LET chunk_starts == arange3(0, dh.n_utime, dh.time_chunk)
           row_chunks == reduceat(dh.ucounts, chunk_starts)
       IN  dh' = [dh EXCEPT
                    !.chunk_starts = chunk_starts,
                    !.row_chunks = row_chunks,
                    !.chunking = <<dh.utime_chunks, row_chunks>>,
                    !.pc = "done"]
    /\ UNCHANGED <<solver_vars, mp, cg, gx>>

NextChunking ==
    \/ integer_chunking_unique
    \/ integer_chunking_utime_chunks
    \/ integer_chunking_row_chunks

SpecChunking == InitChunking /\ [][NextChunking]_vars

\* ---------------------------------------------------- interval_chunking
\* Chunking by duration (a float time chunk), in its two implementations:
\* interval_chunking of compute_chunking (quartical/data_handling) and the
\* float branch of read_ms (cubicalv2/data_handling).  Both group the unique
\* times by cumulative interval; they differ in how they place the starts
\* of the groups.  Durations are counted in whole units.
MaxIntervalLen == 2

RECURSIVE IntervalColumn(_, _, _)
\* The INTERVAL column in which the rows of the k-th unique time hold
\* ivals[k].
IntervalColumn(counts, ivals, k) ==
    IF k > Len(counts) THEN <<>>
    ELSE Repeat(ivals[k], counts[k]) \o IntervalColumn(counts, ivals, k + 1)

InitIntervalChunking ==
    /\ SolverIdle
    /\ mp = <<>>
    /\ cg = <<>>
    /\ gx = <<>>
    /\ \E counts \in RowCounts, time_chunk \in 1 .. MaxTimeChunk,
          impl \in {"compute_chunking", "read_ms"} :
       \E ivals \in [DOMAIN counts -> 1 .. MaxIntervalLen] :
        dh = [pc |-> "unique",
              impl |-> impl,
              time_col |-> TimeColumn(counts, 1),
              interval_col |-> IntervalColumn(counts, ivals, 1),
              time_chunk |-> time_chunk,
              utimes |-> <<>>,
              ucounts |-> <<>>,
              chunk_map |-> <<>>,
              utime_chunks |-> <<>>,
              chunk_starts |-> <<>>,
              row_chunks |-> <<>>]

\* The 0-based positions of the first occurrences, return_index=True.
np_unique_index(col) ==
    LET utimes == np_unique(col).utimes
    IN  [k \in DOMAIN utimes |->
            (CHOOSE r \in DOMAIN col :
                /\ col[r] = utimes[k]
                /\ \A q \in 1 .. r - 1 : col[q] # utimes[k]) - 1]

\* np.cumsum(a)
np_cumsum(a) == [k \in DOMAIN a |-> SeqSum(SubSeq(a, 1, k))]

\* utimes, uinds, ucounts = np.unique(time_col, ...); cumulative_interval =
\* np.cumsum(interval_col[uinds]) - its first entry; chunk_map =
\* cumulative_interval // time_chunk
interval_chunking_unique ==
    /\ dh.pc = "unique"
    /\ LET u == np_unique(dh.time_col)
           uinds == np_unique_index(dh.time_col)
           cumint == np_cumsum([k \in DOMAIN uinds |->
                                   dh.interval_col[uinds[k] + 1]])
           cumulative_interval == [k \in DOMAIN cumint |-> cumint[k] - cumint[1]]
       IN  dh' = [dh EXCEPT
                    !.utimes = u.utimes,
                    !.ucounts = u.ucounts,
                    !.chunk_map = [k \in DOMAIN cumulative_interval |->
                                      cumulative_interval[k] \div dh.time_chunk],
                    !.pc = "utime_chunks"]
    /\ UNCHANGED <<solver_vars, mp, cg, gx>>

\* _, utime_chunks = np.unique(chunk_map, return_counts=True)
interval_chunking_utime_chunks ==
    /\ dh.pc = "utime_chunks"
    /\ dh' = [dh EXCEPT !.utime_chunks = np_unique(dh.chunk_map).ucounts,
                        !.pc = "row_chunks"]
    /\ UNCHANGED <<solver_vars, mp, cg, gx>>

\* compute_chunking: chunk_starts = zeros; chunk_starts[1:] =
\* np.cumsum(utime_chunks)[:-1]; row_chunks = np.add.reduceat(ucounts,
\* chunk_starts)
interval_chunking_row_chunks ==
    /\ dh.pc = "row_chunks"
    /\ dh.impl = "compute_chunking"
    /\ LET cs == np_cumsum(dh.utime_chunks)
           chunk_starts == [k \in DOMAIN cs |-> IF k = 1 THEN 0 ELSE cs[k - 1]]
       IN  dh' = [dh EXCEPT !.chunk_starts = chunk_starts,
                            !.row_chunks = reduceat(dh.ucounts, chunk_starts),
                            !.pc = "done"]
    /\ UNCHANGED <<solver_vars, mp, cg, gx>>

\* read_ms: cum_utime_per_chunk = np.cumsum(utime_per_chunk) - its first
\* entry; chunks = np.add.reduceat(utime_counts, cum_utime_per_chunk)
read_ms_row_chunks ==
    /\ dh.pc = "row_chunks"
    /\ dh.impl = "read_ms"
    /\ LET cs == np_cumsum(dh.utime_chunks)
           cum_utime_per_chunk == [k \in DOMAIN cs |-> cs[k] - cs[1]]
       IN  dh' = [dh EXCEPT
                    !.chunk_starts = cum_utime_per_chunk,
                    !.row_chunks = reduceat(dh.ucounts, cum_utime_per_chunk),
                    !.pc = "done"]
    /\ UNCHANGED <<solver_vars, mp, cg, gx>>

NextIntervalChunking ==
    \/ interval_chunking_unique
    \/ interval_chunking_utime_chunks
    \/ interval_chunking_row_chunks
    \/ read_ms_row_chunks

SpecIntervalChunking == InitIntervalChunking /\ [][NextIntervalChunking]_vars

\* --------------------------------------------------------- add_mad_graph
\* The MAD flagger: compute_mad_flags marks visibilities from the residual
\* statistics (any marking can come out of it), and the marks are written
\* into the aggregate flags, which hold 0, 1 or the temporary flag -1.
MadRows == 2
MadChans == 1

MadVis == (0 .. MadRows - 1) \X (0 .. MadChans - 1)

FlagVals == {-1, 0, 1}

\* The int8 values compute_mad_flags may give a visibility.
MadVals == {0, 1, 2}

InitMad ==
    /\ SolverIdle
    /\ mp = <<>>
    /\ cg = <<>>
    /\ gx = <<>>
    /\ \E flag_col \in [MadVis -> FlagVals] :
        dh = [pc |-> "compute_mad_flags",
              FLAG |-> flag_col,
              mad_flags |-> <<>>,
              flagged_FLAG |-> <<>>]

\* Lines 161-207: chisq, the baseline and global MAD estimates and the
\* marks computed from them.
compute_mad_flags ==
    /\ dh.pc = "compute_mad_flags"
    /\ \E mad_flags \in [MadVis -> MadVals] :
        dh' = [dh EXCEPT !.mad_flags = mad_flags, !.pc = "where"]
    /\ UNCHANGED <<solver_vars, mp, cg, gx>>

\* Variant that takes the marks as the new flags.
da_where_replace(cond, x, y) == [v \in DOMAIN cond |-> IF cond[v] # 0 THEN x ELSE 0]

\* da.where(cond, x, y) for an integer condition and a scalar x
da_where(cond, x, y) == [v \in DOMAIN cond |-> IF cond[v] # 0 THEN x ELSE y[v]]

\* flag_col = da.where(mad_flags, 1, flag_col); xds.assign(FLAG=flag_col)
add_mad_graph ==
    /\ dh.pc = "where"
    /\ dh' = [dh EXCEPT
                !.flagged_FLAG = da_where(dh.mad_flags, 1, dh.FLAG),
                !.pc = "flagged"]
    /\ UNCHANGED <<solver_vars, mp, cg, gx>>

NextMad ==
    \/ compute_mad_flags
    \/ add_mad_graph

SpecMad == InitMad /\ [][NextMad]_vars

\* --------------------------------------------------- preprocess_xds_list
\* Preprocessing of one dataset of n_row rows, n_chan channels and n_corr
\* correlations.  A value is "0", a finite nonzero number "1", or one of
\* the non-finite "nan" and "inf".  Every visibility is sound but one,
\* in which one correlation may carry a bad value, an input flag or a zero
\* weight, and whose row may be flagged.
PreRows == 2
PreChans == 2

\* The numbers of correlations read_xds_list accepts.
CorrCounts == {1, 2, 4}

BadVals == {"0", "nan", "inf"}

Idx2(nr, nf) == (0 .. nr - 1) \X (0 .. nf - 1)
Idx3(nr, nf, nc) == (0 .. nr - 1) \X (0 .. nf - 1) \X (0 .. nc - 1)

\* An array that holds `bad` at correlation c of visibility v (nowhere when
\* c = -1) and `good` everywhere else.
OneOff(nr, nf, nc, v, c, bad, good) ==
    [i \in Idx3(nr, nf, nc) |->
        IF i = <<v[1], v[2], c>> THEN bad ELSE good]

InitPre ==
    /\ SolverIdle
    /\ mp = <<>>
    /\ cg = <<>>
    /\ gx = <<>>
    /\ \E nr \in 1 .. PreRows, nf \in 1 .. PreChans, nc \in CorrCounts :
       \E v \in Idx2(nr, nf), dc \in -1 .. nc - 1, bad \in BadVals,
          fc \in -1 .. nc - 1, fr \in {0, 1} :
        /\ dc = -1 => bad = "0"
        /\ dh = [pc |-> "isfinite",
                 n_row |-> nr, n_chan |-> nf, n_corr |-> nc,
                 DATA |-> OneOff(nr, nf, nc, v, dc, bad, "1"),
                 FLAG |-> OneOff(nr, nf, nc, v, fc, 1, 0),
                 FLAG_ROW |-> [r \in 0 .. nr - 1 |->
                                  IF r = v[1] THEN fr ELSE 0],
                 vis |-> v,
                 data_col |-> <<>>,
                 init_weight |-> <<>>,
                 flag_col |-> <<>>,
                 weight_col |-> [err |-> FALSE, shape |-> <<>>, arr |-> <<>>]]

isfinite(x) == x \notin {"nan", "inf"}

\* finite_data = da.isfinite(data_col);
\* data_col = da.where(finite_data, data_col, 0)
zero_broken_data ==
    /\ dh.pc = "isfinite"
    /\ dh' = [dh EXCEPT
                !.data_col = [i \in DOMAIN dh.DATA |->
                                 IF isfinite(dh.DATA[i]) THEN dh.DATA[i]
                                 ELSE "0"],
                !.pc = "initialize_weights"]
    /\ UNCHANGED <<solver_vars, mp, cg, gx>>

\* weight_col = initialize_weights(xds, data_col, opts): the weights are
\* supplied from outside; here finite, and zero in at most one place.
initialize_weights ==
    /\ dh.pc = "initialize_weights"
    /\ \E wc \in -1 .. dh.n_corr - 1 :
        dh' = [dh EXCEPT
                 !.init_weight = OneOff(dh.n_row, dh.n_chan, dh.n_corr,
                                        dh.vis, wc, "0", "1"),
                 !.pc = "initialise_flags"]
    /\ UNCHANGED <<solver_vars, mp, cg, gx>>

\* Variant that looks for a zero in every correlation.
_initialise_flags_allcorr(data_col, weight_col, flag_col, flag_row_col, nr, nf, nc) ==
    [v \in Idx2(nr, nf) |->
        IF \/ \E c \in 0 .. nc - 1 : flag_col[<<v[1], v[2], c>>] = 1
           \/ flag_row_col[v[1]] = 1
           \/ \E c \in 0 .. nc - 1 : data_col[<<v[1], v[2], c>>] = "0"
           \/ \E c \in 0 .. nc - 1 : weight_col[<<v[1], v[2], c>>] = "0"
        THEN 1 ELSE 0]

\* flags = flag_col | flag_row_col[:, None, None];
\* missing_points = np.any(data_col[..., (0, -1)] == 0, axis=-1);
\* noweight_points likewise; both set every correlation of the visibility;
\* the result is np.any(flags, axis=-1) as int8, of shape (row, chan).
_initialise_flags(data_col, weight_col, flag_col, flag_row_col, nr, nf, nc) ==
    LET flags == [i \in Idx3(nr, nf, nc) |->
                     flag_col[i] = 1 \/ flag_row_col[i[1]] = 1]
        missing_points == [v \in Idx2(nr, nf) |->
            \E c \in {0, nc - 1} : data_col[<<v[1], v[2], c>>] = "0"]
        noweight_points == [v \in Idx2(nr, nf) |->
            \E c \in {0, nc - 1} : weight_col[<<v[1], v[2], c>>] = "0"]
        flagged == [i \in Idx3(nr, nf, nc) |->
            \/ flags[i]
            \/ missing_points[<<i[1], i[2]>>]
            \/ noweight_points[<<i[1], i[2]>>]]
    IN  [v \in Idx2(nr, nf) |->
            IF \E c \in 0 .. nc - 1 : flagged[<<v[1], v[2], c>>]
            THEN 1 ELSE 0]

initialise_flags ==
    /\ dh.pc = "initialise_flags"
    /\ dh' = [dh EXCEPT
                !.flag_col = _initialise_flags(
                    dh.data_col, dh.init_weight, dh.FLAG, dh.FLAG_ROW,
                    dh.n_row, dh.n_chan, dh.n_corr),
                !.pc = "where"]
    /\ UNCHANGED <<solver_vars, mp, cg, gx>>

Max(a, b) == IF a >= b THEN a ELSE b

\* Two axis lengths broadcast together when equal or when one of them is 1.
Compatible(a, b) == a = b \/ a = 1 \/ b = 1

\* da.where(cond, 0, y) for cond of shape (nr, nf) and y of shape (nr, nf, nc):
\* the shapes are aligned on their last axes, so the axes of cond meet the
\* channel and the correlation axis of y.  A stretched axis of length 1 is
\* read at index 0.  Shapes that do not broadcast raise ValueError.
da_where_0(cond, y, nr, nf, nc) ==
    IF Compatible(nr, nf) /\ Compatible(nf, nc)
    THEN [err |-> FALSE,
          shape |-> <<nr, Max(nr, nf), Max(nf, nc)>>,
          arr |-> [i \in Idx3(nr, Max(nr, nf), Max(nf, nc)) |->
                      IF cond[<<IF nr > 1 THEN i[2] ELSE 0,
                                IF nf > 1 THEN i[3] ELSE 0>>] # 0
                      THEN "0"
                      ELSE y[<<i[1],
                               IF nf > 1 THEN i[2] ELSE 0,
                               IF nc > 1 THEN i[3] ELSE 0>>]]]
    ELSE [err |-> TRUE, shape |-> <<>>, arr |-> <<>>]

\* weight_col = da.where(flag_col, 0, weight_col)
zero_flagged_weights ==
    /\ dh.pc = "where"
    /\ LET w == da_where_0(dh.flag_col, dh.init_weight,
                           dh.n_row, dh.n_chan, dh.n_corr)
       IN  dh' = [dh EXCEPT
                    !.weight_col = w,
                    !.pc = IF w.err THEN "ValueError" ELSE "weights"]
    /\ UNCHANGED <<solver_vars, mp, cg, gx>>

NextPre ==
    \/ zero_broken_data
    \/ initialize_weights
    \/ initialise_flags
    \/ zero_flagged_weights

SpecPre == InitPre /\ [][NextPre]_vars

\* ------------------------------------------------------- chain assembly
\* From reading the measurement set to the first solve: read_xds_list
\* checks the number of correlations, make_gain_xds_lod looks every term
\* type up in TERM_TYPES, and the delay kernels are specialised for the
\* correlation mode.  A run starts at read_xds_list, or at the kernels with
\* a correlation mode given by the caller.
MaxCorr == 5
MaxChain == 2

TERM_TYPES ==
    [complex |-> "Complex",
     phase |-> "Phase",
     delay |-> "Delay",
     slow_complex |-> "SlowComplex",
     slow_delay |-> "SlowDelay"]

\* The type names a chain may be configured with.
TypeNames ==
    {"complex", "phase", "delay", "slow_complex", "slow_delay",
     "rotation_measure", "parallactic_angle", "amplitude"}

TypeChains == UNION {[1 .. n -> TypeNames] : n \in 1 .. MaxChain}

InitAssembly ==
    /\ SolverIdle
    /\ mp = <<>>
    /\ cg = <<>>
    /\ dh = <<>>
    /\ \E entry_point \in {"read_xds_list", "delay_solver"},
          ncorr \in 0 .. MaxCorr, mode \in {"diag", "full"},
          chain \in TypeChains :
        /\ entry_point = "read_xds_list" => ncorr >= 1
        /\ entry_point = "delay_solver" =>
              mode = "full" /\ \A k \in DOMAIN chain : chain[k] = "delay"
        /\ gx = [pc |-> IF entry_point = "read_xds_list"
                        THEN "read_xds_list" ELSE "specialise",
                 entry_point |-> entry_point,
                 _ms_ncorr |-> ncorr,
                 correlation_mode |-> mode,
                 chain |-> chain,
                 corr_mode |-> ncorr,
                 term_ind |-> 1,
                 term_xds |-> <<>>,
                 error |-> "",
                 gains |-> <<>>]

\* Variant that accepts every positive number of correlations.
ncorr_supported_any(n) == n >= 1

\* opts._ms_ncorr in (1, 2, 4)
ncorr_supported(n) == n \in {1, 2, 4}

\* if opts._ms_ncorr not in (1, 2, 4): raise ValueError
read_xds_list ==
    /\ gx.pc = "read_xds_list"
    /\ gx' = IF ncorr_supported(gx._ms_ncorr)
             THEN [gx EXCEPT !.pc = "select"]
             ELSE [gx EXCEPT !.pc = "raised", !.error = "ValueError"]
    /\ UNCHANGED <<solver_vars, mp, cg, dh>>

\* "diag" on four correlations keeps correlations 0 and 3; "full" on fewer
\* than four raises ValueError.
read_xds_list_select ==
    /\ gx.pc = "select"
    /\ gx' = IF gx.correlation_mode = "diag" /\ gx._ms_ncorr = 4
             THEN [gx EXCEPT !.corr_mode = 2, !.pc = "make_gain_xds_lod"]
             ELSE IF gx.correlation_mode = "full" /\ gx._ms_ncorr # 4
             THEN [gx EXCEPT !.pc = "raised", !.error = "ValueError"]
             ELSE [gx EXCEPT !.pc = "make_gain_xds_lod"]
    /\ UNCHANGED <<solver_vars, mp, cg, dh>>

\* One pass of the term loop: term_obj = TERM_TYPES[term_type](...), a
\* KeyError for a name the table does not hold.
make_gain_xds_lod ==
    /\ gx.pc = "make_gain_xds_lod"
    /\ LET term_type == gx.chain[gx.term_ind]
       IN  gx' = IF term_type \in DOMAIN TERM_TYPES
                 THEN [gx EXCEPT
                         !.term_xds = Append(@, TERM_TYPES[term_type]),
                         !.term_ind = @ + 1,
                         !.pc = IF gx.term_ind = Len(gx.chain)
                                THEN "specialise" ELSE @]
                 ELSE [gx EXCEPT !.pc = "raised", !.error = "KeyError"]
    /\ UNCHANGED <<solver_vars, mp, cg, dh>>

param_to_gain_factory(cm) ==
    IF cm = 4 THEN "impl"
    ELSE IF cm = 2 THEN "impl"
    ELSE IF cm = 1 THEN "impl"
    ELSE "ValueError"

\* The specialisation of finalize_update: param_to_gain_factory is called
\* first, then the implementation is chosen for modes 1, 2 and 4.
finalize_update_jit(cm) ==
    IF param_to_gain_factory(cm) = "ValueError" THEN "ValueError"
    ELSE IF cm \in {1, 2, 4} THEN "impl"
    ELSE "ValueError"

\* The first call of the delay kernels compiles them for corr_mode.
specialise ==
    /\ gx.pc = "specialise"
    /\ gx' = IF finalize_update_jit(gx.corr_mode) = "impl"
             THEN [gx EXCEPT !.pc = "solve"]
             ELSE [gx EXCEPT !.pc = "raised", !.error = "ValueError"]
    /\ UNCHANGED <<solver_vars, mp, cg, dh>>

\* The chunks are solved: one gain per term of the chain.
solve_chunks ==
    /\ gx.pc = "solve"
    /\ gx' = [gx EXCEPT !.gains = gx.chain, !.pc = "solved"]
    /\ UNCHANGED <<solver_vars, mp, cg, dh>>

NextAssembly ==
    \/ read_xds_list
    \/ read_xds_list_select
    \/ make_gain_xds_lod
    \/ specialise
    \/ solve_chunks

SpecAssembly == InitAssembly /\ [][NextAssembly]_vars

\* ---------------------------------------------------------- prange loops
\* The parallel loops of compute_jhj_jhr and compute_update: one iteration
\* per solution interval, the iterations interleaved step by step.  An
\* accumulation into a cell is a read followed by a write.  Every time
\* interval holds one row, the last one two; every frequency interval holds
\* one channel; the rows alternate between the baselines (0, 1) and (1, 2).
\* At most one visibility is flagged, hard (1) or soft (-1).
PrTint == 2
PrFint == 2
PrAnt == 3

PrAnt1(row) == row % 2
PrAnt2(row) == (row % 2) + 1

\* Variant that skips only the hard-flagged visibilities.
Skipped_hard(fl) == fl = 1

\* if flags[row, f]: continue
Skipped(fl) == fl # 0

\* Variant that keeps only the time interval of the flat index.
interval_of_time(i, n_fint) == <<i \div n_fint, 0>>

\* ti = i//n_fint; fi = i - ti*n_fint
interval_of(i, n_fint) == <<i \div n_fint, i - (i \div n_fint) * n_fint>>

\* range(row_starts[ti], row_stops[ti])
PrRows(ti, n_tint) == IF ti = n_tint - 1 THEN <<ti, ti + 1>> ELSE <<ti>>

\* The accumulations of one iteration in program order: for each row and
\* channel of the interval, antenna a1 and then antenna a2.
PrOps(iv, n_tint, flags) ==
    LET rs == SelectSeq(PrRows(iv[1], n_tint),
                        LAMBDA r : ~Skipped(flags[<<r, iv[2]>>]))
    IN  [k \in 1 .. 2 * Len(rs) |->
            LET row == rs[(k + 1) \div 2]
            IN  <<row, iv[2], IF k % 2 = 1 THEN PrAnt1(row) ELSE PrAnt2(row)>>]

PrCells(n_tint, n_fint) ==
    (0 .. n_tint - 1) \X (0 .. n_fint - 1) \X (0 .. PrAnt - 1)

PrVis(n_tint, n_fint) == (0 .. n_tint) \X (0 .. n_fint - 1)

InitPrange ==
    /\ SolverIdle
    /\ cg = <<>>
    /\ dh = <<>>
    /\ gx = <<>>
    /\ \E n_tint \in 1 .. PrTint, n_fint \in 1 .. PrFint, fl \in {-1, 0, 1} :
       \E bad \in PrVis(n_tint, n_fint) :
        mp = [pc |-> "compute_jhj_jhr",
              n_tint |-> n_tint,
              n_fint |-> n_fint,
              flags |-> [v \in PrVis(n_tint, n_fint) |->
                            IF v = bad THEN fl ELSE 0],
              pos |-> [i \in 0 .. n_tint * n_fint - 1 |-> 0],
              tmp |-> [i \in 0 .. n_tint * n_fint - 1 |-> {}],
              jhj |-> [c \in PrCells(n_tint, n_fint) |-> {}],
              jhj_writers |-> [c \in PrCells(n_tint, n_fint) |-> {}],
              update |-> [c \in PrCells(n_tint, n_fint) |-> <<"uninit", {}>>],
              update_writers |-> [c \in PrCells(n_tint, n_fint) |-> {}]]

\* One step of iteration i of the loop of compute_jhj_jhr: the read or the
\* write of its next accumulation into tmp_jhj[a, d] = jhj[ti, fi, a, d].
compute_jhj_jhr_step(i) ==
    /\ mp.pc = "compute_jhj_jhr"
    /\ LET iv == interval_of(i, mp.n_fint)
           ops == PrOps(iv, mp.n_tint, mp.flags)
           op == ops[mp.pos[i] \div 2 + 1]
           cell == <<iv[1], iv[2], op[3]>>
       IN  /\ mp.pos[i] < 2 * Len(ops)
           /\ mp' = IF mp.pos[i] % 2 = 0
                    THEN [mp EXCEPT !.tmp[i] = mp.jhj[cell],
                                    !.pos[i] = @ + 1]
                    ELSE [mp EXCEPT
                            !.jhj[cell] = mp.tmp[i] \cup {<<op[1], op[2]>>},
                            !.jhj_writers[cell] = @ \cup {i},
                            !.pos[i] = @ + 1]
    /\ UNCHANGED <<solver_vars, cg, dh, gx>>

\* All iterations are over: compute_jhj_jhr returns, compute_update starts.
compute_jhj_jhr_join ==
    /\ mp.pc = "compute_jhj_jhr"
    /\ \A i \in DOMAIN mp.pos :
          mp.pos[i] = 2 * Len(PrOps(interval_of(i, mp.n_fint), mp.n_tint, mp.flags))
    /\ mp' = [mp EXCEPT !.pc = "compute_update",
                        !.pos = [i \in DOMAIN mp.pos |-> 0]]
    /\ UNCHANGED <<solver_vars, cg, dh, gx>>

\* One step of iteration i of the loop of compute_update: invert for its
\* next antenna, written to update[t, f, a, d].
compute_update_step(i) ==
    /\ mp.pc = "compute_update"
    /\ mp.pos[i] < PrAnt
    /\ LET iv == interval_of(i, mp.n_fint)
           cell == <<iv[1], iv[2], mp.pos[i]>>
       IN  mp' = [mp EXCEPT !.update[cell] = <<"invert", mp.jhj[cell]>>,
                            !.update_writers[cell] = @ \cup {i},
                            !.pos[i] = @ + 1]
    /\ UNCHANGED <<solver_vars, cg, dh, gx>>

compute_update_join ==
    /\ mp.pc = "compute_update"
    /\ \A i \in DOMAIN mp.pos : mp.pos[i] = PrAnt
    /\ mp' = [mp EXCEPT !.pc = "done"]
    /\ UNCHANGED <<solver_vars, cg, dh, gx>>

NextPrange ==
    \/ \E i \in DOMAIN mp.pos : compute_jhj_jhr_step(i)
    \/ compute_jhj_jhr_join
    \/ \E i \in DOMAIN mp.pos : compute_update_step(i)
    \/ compute_update_join

SpecPrange == InitPrange /\ [][NextPrange]_vars

\* ------------------------------------------------ make_visibility_output
\* The visibility outputs as a graph of symbolic arrays.  An array is a
\* column of a data set or the result of a blockwise call; it carries its
\* row and channel chunks.
MaxXds == 2

ChunkChoices == {<<2>>, <<1, 1>>}

Column(name, k, chunks) ==
    [op |-> "column", name |-> name, xds |-> k, args |-> <<>>, chunks |-> chunks]

Literal(v) ==
    [op |-> "literal", name |-> v, xds |-> -1, args |-> <<>>, chunks |-> <<>>]

\* One data set: its columns, with ROW_MAP and ROW_WEIGHTS when it is BDA.
DataXds(k, bda, n_corr, rc, fc) ==
    LET names == {"DATA", "MODEL_DATA", "ANTENNA1", "ANTENNA2"}
                 \cup (IF bda THEN {"ROW_MAP", "ROW_WEIGHTS"} ELSE {})
    IN  [n_corr |-> n_corr,
         vars |-> [n \in names |->
                     Column(n, k, IF n \in {"DATA", "MODEL_DATA"}
                                  THEN <<rc, fc>> ELSE <<rc>>)]]

XdsChoices(k) ==
    {DataXds(k, bda, n_corr, rc, fc) :
        bda \in BOOLEAN, n_corr \in {2, 4},
        rc \in ChunkChoices, fc \in ChunkChoices}

InitVisOut ==
    /\ SolverIdle
    /\ mp = <<>>
    /\ cg = <<>>
    /\ dh = <<>>
    /\ \E n \in 1 .. MaxXds, n_term \in 1 .. MaxTerms :
       \E xl \in [1 .. n -> UNION {XdsChoices(k) : k \in 1 .. n}] :
        /\ \A k \in 1 .. n : xl[k] \in XdsChoices(k)
        /\ gx = [pc |-> "loop",
                 xds_ind |-> 1,
                 n_term |-> n_term,
                 data_xds_list |-> xl,
                 post_solve_data_xds_list |-> <<>>]

\* da.blockwise(func, ("rowlike", "chan", "corr"), *args,
\* adjust_chunks={"rowlike": ..., "chan": ...})
blockwise(func, k, args, rowlike, chan) ==
    [op |-> func, name |-> "", xds |-> k, args |-> args,
     chunks |-> <<rowlike, chan>>]

\* Variant that corrects the residual where the data are meant.
corrected_data_input_residual(data_col, residual) == residual

\* "the only difference is whether we supply the residuals or the data"
corrected_data_input(data_col, residual) == data_col

\* The arguments every blockwise call takes after its visibilities.
CommonArgs(xds, k, n_term) ==
    LET bda == "ROW_MAP" \in DOMAIN xds.vars
    IN  <<xds.vars["ANTENNA1"], xds.vars["ANTENNA2"],
          Column("t_map_arr", k, <<>>), Column("f_map_arr", k, <<>>),
          Column("d_map_arr", k, <<>>),
          IF bda THEN xds.vars["ROW_MAP"] ELSE Literal("None"),
          IF bda THEN xds.vars["ROW_WEIGHTS"] ELSE Literal("None"),
          Literal(IF xds.n_corr = 2 THEN "diag" ELSE "full")>>
        \o [g \in 1 .. n_term |-> Column("gains", k, <<g>>)]

\* One pass of the loop over the data sets.
make_visibility_output ==
    /\ gx.pc = "loop"
    /\ gx.xds_ind <= Len(gx.data_xds_list)
    /\ LET k == gx.xds_ind
           data_xds == gx.data_xds_list[k]
           data_col == data_xds.vars["DATA"]
           model_col == data_xds.vars["MODEL_DATA"]
           common == CommonArgs(data_xds, k, gx.n_term)
           rowlike == data_col.chunks[1]
           chan == data_col.chunks[2]
           residual == blockwise("dask_residual", k,
                           <<data_col, model_col>> \o common, rowlike, chan)
           corrected_residual ==
               blockwise("dask_corrected_residual", k,
                         <<residual>> \o common, rowlike, chan)
           corrected_data ==
               blockwise("dask_corrected_residual", k,
                         <<corrected_data_input(data_col, residual)>>
                             \o common, rowlike, chan)
           visibility_outputs ==
               [n \in {"_RESIDUAL", "_CORRECTED_RESIDUAL", "_CORRECTED_DATA"}
                   |-> IF n = "_RESIDUAL" THEN residual
                       ELSE IF n = "_CORRECTED_RESIDUAL"
                       THEN corrected_residual
                       ELSE corrected_data]
           post_solve_data_xds ==
               [data_xds EXCEPT !.vars =
                   [n \in DOMAIN data_xds.vars \cup DOMAIN visibility_outputs
                       |-> IF n \in DOMAIN visibility_outputs
                           THEN visibility_outputs[n]
                           ELSE data_xds.vars[n]]]
       IN  gx' = [gx EXCEPT
                    !.post_solve_data_xds_list =
                        Append(@, post_solve_data_xds),
                    !.xds_ind = @ + 1]
    /\ UNCHANGED <<solver_vars, mp, cg, dh>>

make_visibility_output_return ==
    /\ gx.pc = "loop"
    /\ gx.xds_ind > Len(gx.data_xds_list)
    /\ gx' = [gx EXCEPT !.pc = "returned"]
    /\ UNCHANGED <<solver_vars, mp, cg, dh>>

NextVisOut ==
    \/ make_visibility_output
    \/ make_visibility_output_return

SpecVisOut == InitVisOut /\ [][NextVisOut]_vars

\* ---------------------------------------------------------- expand_specs
\* expand_specs of calibration/constructor.py on the gain datasets of one
\* data chunking: every term has one tchunk entry per time chunk and one
\* fchunk entry per frequency chunk of the data, holding its number of
\* solution intervals in that chunk, and its own number of directions.
MaxSpecChunks == 2
MaxSpecIvl == 2

SpecTermNames == <<"G", "B", "K", "dE">>
SpecTermTypes == <<"complex", "delay", "phase", "amplitude">>

ChunkSpecs(n_t, n_f) ==
    [tchunk : [1 .. n_t -> 1 .. MaxSpecIvl],
     fchunk : [1 .. n_f -> 1 .. MaxSpecIvl],
     achunk : {<<NAnt>>},
     dchunk : {<<d>> : d \in 1 .. MaxDir},
     cchunk : {<<1>>}]

InitExpand ==
    /\ SolverIdle
    /\ mp = <<>>
    /\ dh = <<>>
    /\ gx = <<>>
    /\ \E n \in 1 .. MaxTerms, n_t \in 1 .. MaxSpecChunks,
          n_f \in 1 .. MaxSpecChunks :
       \E specs \in [1 .. n -> ChunkSpecs(n_t, n_f)] :
          cg = [pc |-> "expand_specs",
                gain_xds_list |-> [k \in 1 .. n |->
                                      [NAME |-> SpecTermNames[k],
                                       TYPE |-> SpecTermTypes[k],
                                       CHUNK_SPEC |-> specs[k]]],
                spec_lists |-> <<>>,
                spec_list |-> <<>>]

\* Variant that runs over the frequency chunks in the outer loop.
product_fmajor(a, b) ==
    [k \in 1 .. Len(a) * Len(b) |->
        <<a[((k - 1) % Len(a)) + 1], b[((k - 1) \div Len(a)) + 1]>>]

\* itertools.product(a, b): the pairs with the last sequence varying fastest.
product(a, b) ==
    [k \in 1 .. Len(a) * Len(b) |->
        <<a[((k - 1) \div Len(b)) + 1], b[((k - 1) % Len(b)) + 1]>>]

MinLen(seqs) ==
    IF Len(seqs) = 0 THEN 0
    ELSE CHOOSE m \in {Len(seqs[k]) : k \in DOMAIN seqs} :
            \A k \in DOMAIN seqs : m <= Len(seqs[k])

\* zip(*seqs): one tuple per position, up to the end of the shortest.
zip(seqs) ==
    [p \in 1 .. MinLen(seqs) |-> [k \in DOMAIN seqs |-> seqs[k][p]]]

\* One pass of the loop of expand_specs: the specs of the next term.
expand_specs_term ==
    /\ cg.pc = "expand_specs"
    /\ Len(cg.spec_lists) < Len(cg.gain_xds_list)
    /\ LET gxds == cg.gain_xds_list[Len(cg.spec_lists) + 1]
           chunk_spec == gxds.CHUNK_SPEC
           ac == chunk_spec.achunk[1]
           dc == chunk_spec.dchunk[1]
           cc == chunk_spec.cchunk[1]
           pairs == product(chunk_spec.tchunk, chunk_spec.fchunk)
           term_spec_list ==
               [p \in DOMAIN pairs |->
                   [name |-> gxds.NAME,
                    type |-> gxds.TYPE,
                    shape |-> <<pairs[p][1], pairs[p][2], ac, dc, cc>>]]
       IN  cg' = [cg EXCEPT !.spec_lists = Append(@, term_spec_list)]
    /\ UNCHANGED <<solver_vars, mp, dh, gx>>

\* return list(zip(*spec_lists))
expand_specs_return ==
    /\ cg.pc = "expand_specs"
    /\ Len(cg.spec_lists) = Len(cg.gain_xds_list)
    /\ cg' = [cg EXCEPT !.spec_list = zip(cg.spec_lists), !.pc = "done"]
    /\ UNCHANGED <<solver_vars, mp, dh, gx>>

NextExpand ==
    \/ expand_specs_term
    \/ expand_specs_return

SpecExpand == InitExpand /\ [][NextExpand]_vars

\* -------------------------------------------------------- finalise_flags
\* The end of _execute: the optional MAD flagging of the aggregate flags
\* (rows x channels, values -1, 0 and 1) and finalise_flags, which makes the
\* FLAG and FLAG_ROW columns that are written.
FinRows == 2
FinChans == 2

FinVis == (0 .. FinRows - 1) \X (0 .. FinChans - 1)

InitFinalise ==
    /\ SolverIdle
    /\ mp = <<>>
    /\ cg = <<>>
    /\ gx = <<>>
    /\ \E flag_col \in [FinVis -> FlagVals], n_corr \in CorrCounts,
          enable \in BOOLEAN :
        dh = [pc |-> "mad_flags",
              enable |-> enable,
              n_corr |-> n_corr,
              init_FLAG |-> flag_col,
              mad_flags |-> [v \in FinVis |-> 0],
              FLAG |-> flag_col,
              out_FLAG |-> <<>>,
              out_FLAG_ROW |-> <<>>]

\* if opts.mad_flags.enable: data_xds_list = add_mad_graph(...)
execute_mad_flags ==
    /\ dh.pc = "mad_flags"
    /\ IF dh.enable
       THEN \E mad_flags \in [FinVis -> MadVals] :
               dh' = [dh EXCEPT !.mad_flags = mad_flags,
                                !.FLAG = da_where(mad_flags, 1, dh.FLAG),
                                !.pc = "finalise_flags"]
       ELSE dh' = [dh EXCEPT !.pc = "finalise_flags"]
    /\ UNCHANGED <<solver_vars, mp, cg, gx>>

\* Variant that leaves the temporary flags in the column.
remove_temporary_kept(flag_col) == flag_col

\* da.where(flag_col == -1, 0, flag_col)
remove_temporary(flag_col) ==
    [v \in DOMAIN flag_col |-> IF flag_col[v] = -1 THEN 0 ELSE flag_col[v]]

\* da.broadcast_to(flag_col[:, :, None], data_col.shape)
broadcast_to(flag_col, n_corr) ==
    [w \in Idx3(FinRows, FinChans, n_corr) |-> flag_col[<<w[1], w[2]>>]]

\* flag_col.astype(np.bool)
astype_bool(col) == [w \in DOMAIN col |-> col[w] # 0]

\* da.all(flag_col, axis=(1, 2))
da_all(col, n_corr) ==
    [r \in 0 .. FinRows - 1 |->
        \A f \in 0 .. FinChans - 1, c \in 0 .. n_corr - 1 : col[<<r, f, c>>]]

finalise_flags ==
    /\ dh.pc = "finalise_flags"
    /\ LET flag_col ==
               astype_bool(broadcast_to(remove_temporary(dh.FLAG), dh.n_corr))
       IN  dh' = [dh EXCEPT !.out_FLAG = flag_col,
                            !.out_FLAG_ROW = da_all(flag_col, dh.n_corr),
                            !.pc = "write_xds_list"]
    /\ UNCHANGED <<solver_vars, mp, cg, gx>>

NextFinalise ==
    \/ execute_mad_flags
    \/ finalise_flags

SpecFinalise == InitFinalise /\ [][NextFinalise]_vars

\* ----------------------------------------------------------------- linterp
\* linterp(xx, x, y) of interpolation/interpolants.py as _interpolate_missing
\* calls it: xx is an axis of strictly increasing coordinates, x the
\* coordinates of the finite samples (a non-empty selection of xx, in
\* order) and y their values.  The code is compiled without bounds checks:
\* a read past the end of an array gives an arbitrary value, recorded in oob.
MaxCoord == 4

YVals == {0, 1, 3}

ReadX(seq, i) == IF i < Len(seq) THEN {seq[i + 1]} ELSE 0 .. MaxCoord

ReadY(seq, i) == IF i < Len(seq) THEN {R(seq[i + 1])} ELSE {R(v) : v \in YVals}

InitLinterp ==
    /\ SolverIdle
    /\ cg = <<>>
    /\ dh = <<>>
    /\ gx = <<>>
    /\ \E S \in SUBSET (0 .. MaxCoord - 1) :
       \E G \in SUBSET S :
          /\ G # {}
          /\ \E y \in [1 .. Cardinality(G) -> YVals] :
                mp = [pc |-> "while",
                      xx |-> SortedSeq(S),
                      x |-> SortedSeq(G),
                      y |-> y,
                      xi |-> 0,
                      xxi |-> 0,
                      yy |-> [k \in 1 .. Cardinality(S) |-> R(0)],
                      writes |-> [k \in 1 .. Cardinality(S) |-> 0],
                      oob |-> FALSE,
                      steps |-> 0]

\* Variant that takes the difference of the values as the slope.
slope_unit(y0, y1, xel, xnext) == RSub(y1, y0)

\* slope = (y[xi + 1] - y[xi]) / (x[xi + 1] - xel)
slope(y0, y1, xel, xnext) == RDiv(RSub(y1, y0), R(xnext - xel))

\* One pass of the while loop.  The fourth condition is evaluated with the
\* non-short-circuit &, so x[xi + 1] is read whenever that test is reached.
linterp_step ==
    /\ mp.pc = "while"
    /\ mp.xxi < Len(mp.xx)
    /\ LET xxel == mp.xx[mp.xxi + 1]
           x0 == mp.x[1]
           xlast == mp.x[Len(mp.x)]
           write(v, bad) ==
               [mp EXCEPT !.yy[mp.xxi + 1] = v,
                          !.writes[mp.xxi + 1] = @ + 1,
                          !.xxi = @ + 1,
                          !.oob = @ \/ bad,
                          !.steps = @ + 1]
       IN  \E xel \in ReadX(mp.x, mp.xi) :
             LET bad0 == mp.xi >= Len(mp.x)
             IN  IF xxel = xel
                 THEN \E yv \in ReadY(mp.y, mp.xi) : mp' = write(yv, bad0)
                 ELSE IF xxel < x0
                 THEN mp' = write(R(mp.y[1]), bad0)
                 ELSE IF xxel > xlast
                 THEN mp' = write(R(mp.y[Len(mp.y)]), bad0)
                 ELSE \E xnext \in ReadX(mp.x, mp.xi + 1) :
                        LET bad1 == bad0 \/ mp.xi + 1 >= Len(mp.x)
                        IN  IF xxel > xel /\ xxel < xnext
                            THEN \E y0 \in ReadY(mp.y, mp.xi),
                                    y1 \in ReadY(mp.y, mp.xi + 1) :
                                   mp' = write(
                                       RAdd(RMul(slope(y0, y1, xel, xnext),
                                                 R(xxel - xel)), y0),
                                       bad1)
                            ELSE mp' = [mp EXCEPT !.xi = @ + 1,
                                                  !.oob = @ \/ bad1,
                                                  !.steps = @ + 1]
    /\ UNCHANGED <<solver_vars, cg, dh, gx>>

\* return yy
linterp_return ==
    /\ mp.pc = "while"
    /\ mp.xxi >= Len(mp.xx)
    /\ mp' = [mp EXCEPT !.pc = "return"]
    /\ UNCHANGED <<solver_vars, cg, dh, gx>>

NextLinterp ==
    \/ linterp_step
    \/ linterp_return

SpecLinterp == InitLinterp /\ [][NextLinterp]_vars

\* ---------------------------------------------------------- ScatterSolvers
\* ScatterSolvers.update_graph of scheduling/__init__.py on a graph of tasks
\* 1 .. n in which a task depends on tasks of smaller number, some of them
\* solver_wrapper tasks.  The scheduler knows every task but at most one,
\* and the known tasks start either without worker restrictions (None) or
\* restricted to the last worker.  A set of workers S is held as <<S>> and
\* None as the empty tuple.
MaxTasks == 4
MaxWorkers == 2

None == <<>>

\* The graphs in which task t depends on some of the tasks t - 1 and t - 2.
TaskGraphs ==
    {[t \in 1 .. MaxTasks |-> {t - o : o \in {q \in back[t] : q < t}}] :
        back \in [1 .. MaxTasks -> SUBSET {1, 2}]}

InitScatter ==
    /\ SolverIdle
    /\ mp = <<>>
    /\ cg = <<>>
    /\ dh = <<>>
    /\ \E dependencies \in TaskGraphs, solvers \in SUBSET (1 .. MaxTasks),
          n_worker \in 1 .. MaxWorkers, unknown \in 0 .. MaxTasks,
          restricted \in BOOLEAN :
        gx = [pc |-> "solver_task_groups",
              dependencies |-> dependencies,
              solver_tasks |-> SortedSeq(solvers),
              workers |-> [w \in 1 .. n_worker |-> w],
              tasks |-> (1 .. MaxTasks) \ {unknown},
              init_restrictions |-> IF restricted THEN <<{n_worker}>> ELSE None,
              worker_restrictions |->
                  [t \in (1 .. MaxTasks) \ {unknown} |->
                      IF restricted THEN <<{n_worker}>> ELSE None],
              loose_restrictions |->
                  [t \in (1 .. MaxTasks) \ {unknown} |-> "unset"],
              solver_task_groups |-> <<>>,
              worker_loads |-> <<>>,
              loads_seen |-> <<>>,
              assignees |-> <<>>]

\* dask.core.reverse_dict
reverse_dict(d) == [t \in DOMAIN d |-> {u \in DOMAIN d : t \in d[u]}]

RECURSIVE unravel_deps(_, _)
\* unravel_deps(hlg_deps, name): every dependency of name, followed through.
unravel_deps(hlg_deps, name) ==
    UNION {{dep} \cup unravel_deps(hlg_deps, dep) : dep \in hlg_deps[name]}

\* The first loop of update_graph: one group per solver_wrapper task, and
\* the loads of the workers set to 0.
update_graph_groups ==
    /\ gx.pc = "solver_task_groups"
    /\ LET dependents == reverse_dict(gx.dependencies)
       IN  gx' = [gx EXCEPT
                    !.solver_task_groups =
                        [k \in DOMAIN gx.solver_tasks |->
                            {gx.solver_tasks[k]}
                            \cup unravel_deps(gx.dependencies, gx.solver_tasks[k])
                            \cup unravel_deps(dependents, gx.solver_tasks[k])],
                    !.worker_loads = [w \in DOMAIN gx.workers |-> 0],
                    !.pc = "assign"]
    /\ UNCHANGED <<solver_vars, mp, cg, dh>>

\* Variant that always takes the first worker.
assignee_first(worker_loads) == 1

\* min(worker_loads, key=worker_loads.get): the first worker of least load.
assignee_of(worker_loads) ==
    CHOOSE w \in DOMAIN worker_loads :
        /\ \A v \in DOMAIN worker_loads : worker_loads[w] <= worker_loads[v]
        /\ \A v \in 1 .. w - 1 : worker_loads[v] > worker_loads[w]

\* One pass of the second loop: the next group goes to its assignee.
update_graph_assign ==
    /\ gx.pc = "assign"
    /\ Len(gx.assignees) < Len(gx.solver_task_groups)
    /\ LET task_group == gx.solver_task_groups[Len(gx.assignees) + 1]
           assignee == assignee_of(gx.worker_loads)
       IN  gx' = [gx EXCEPT
                    !.worker_loads[assignee] = @ + Cardinality(task_group),
                    !.loads_seen = Append(@, gx.worker_loads),
                    !.assignees = Append(@, assignee),
                    !.worker_restrictions =
                        [t \in gx.tasks |->
                            IF t \notin task_group THEN @[t]
                            ELSE IF @[t] = None THEN <<{assignee}>>
                            ELSE <<@[t][1] \cup {assignee}>>],
                    !.loose_restrictions =
                        [t \in gx.tasks |->
                            IF t \in task_group THEN "False" ELSE @[t]]]
    /\ UNCHANGED <<solver_vars, mp, cg, dh>>

update_graph_return ==
    /\ gx.pc = "assign"
    /\ Len(gx.assignees) = Len(gx.solver_task_groups)
    /\ gx' = [gx EXCEPT !.pc = "done"]
    /\ UNCHANGED <<solver_vars, mp, cg, dh>>

NextScatter ==
    \/ update_graph_groups
    \/ update_graph_assign
    \/ update_graph_return

SpecScatter == InitScatter /\ [][NextScatter]_vars

\* ------------------------------------------------- delay_solver properties
Count(seq, x) == Cardinality({i \in 1 .. Len(seq) : seq[i] = x})

\* Iterations whose update has been applied.
Applied == Count(calls, "finalize_update")

InLoop == pc \notin {"setup", "done"}

\* The parameters passed to the call, delays scaled by min_freq.
ScaledEntry(c) ==
    [i \in DOMAIN entry.term_args.params[active_term][c] |->
        IF i % 2 = 1
        THEN RMul(entry.term_args.params[active_term][c][i], min_freq)
        ELSE entry.term_args.params[active_term][c][i]]

\* Half of the update of parameter i of cell c, summed over the first n
\* iterations.
HalfSum(c, i, n) ==
    RSum([k \in 1 .. n |-> RDiv(upd_hist[k][c][i], R(2))], 1 .. n)

\* C1: the loop stops right after the first iteration whose converged
\* percentage is strictly greater than stop_frac, else after exactly
\* max_iter iterations; conv_iters is the number of iterations executed and
\* conv_perc the value of the last one.
C1_StopRule ==
    pc = "done" =>
        LET n == Len(perc_hist)
        IN  /\ n = Count(calls, "update_gain_flags")
            /\ n = Count(calls, "compute_jhj_jhr")
            /\ ret.conv_iters = n
            /\ 1 <= n /\ n <= meta_args.iters
            /\ ret.conv_perc = perc_hist[n]
            /\ \A i \in 1 .. n - 1 : ~RGt(perc_hist[i], meta_args.stop_frac)
            /\ RGt(perc_hist[n], meta_args.stop_frac) \/ n = meta_args.iters

\* C1 witness: a finished call that ran all of several iterations, one of
\* them with conv_perc equal to stop_frac.
C1_Witness ==
    /\ pc = "done"
    /\ meta_args.iters >= 2
    /\ ret.conv_iters = meta_args.iters
    /\ \E i \in 1 .. Len(perc_hist) : perc_hist[i] = meta_args.stop_frac

FinalNames ==
    {"finalize_gain_flags", "gain_flags_to_param_flags", "apply_gain_flags"}

FinalCalls ==
    IF meta_args.dd_term
    THEN <<"finalize_gain_flags", "gain_flags_to_param_flags">>
    ELSE <<"finalize_gain_flags", "gain_flags_to_param_flags",
           "apply_gain_flags">>

\* C2: finalisation runs once, after the loop, in the order
\* finalize_gain_flags, gain_flags_to_param_flags, apply_gain_flags (the
\* last only for a direction-independent term), and no iteration step runs
\* once it has started.
C2_FinalisationOrder ==
    LET n == Len(calls)
        k == Len(FinalCalls)
        first == IF \E i \in 1 .. n : calls[i] \in FinalNames
                 THEN CHOOSE i \in 1 .. n :
                          /\ calls[i] \in FinalNames
                          /\ \A j \in 1 .. i - 1 : calls[j] \notin FinalNames
                 ELSE n + 1
    IN  /\ n - first + 1 <= k
        /\ \A i \in first .. n : calls[i] = FinalCalls[i - first + 1]
        /\ first <= n => first > 1 /\ calls[first - 1] = "update_gain_flags"
        /\ pc \in {"return", "done"} => n - first + 1 = k

\* C2 witness: a finished call on a direction-dependent term, where
\* apply_gain_flags is skipped.
C2_Witness ==
    /\ pc = "done"
    /\ meta_args.dd_term
    /\ calls[Len(calls)] = "gain_flags_to_param_flags"

\* The state right after finalize_update.
AfterFinalizeUpdate == pc = "update_gain_flags"

\* C3 as stated: after every finalize_update each cell with a nonzero gain
\* flag holds the identity gain.
C3_NonzeroFlagIdentity ==
    AfterFinalizeUpdate =>
        \A c \in GainCells :
            active_gain_flags[c] # 0 => active_gain[c] = set_identity(corr_mode)

\* C3 amended: after every finalize_update each cell whose gain flag is the
\* hard flag 1 holds the identity gain.
C3_HardFlagIdentity ==
    AfterFinalizeUpdate =>
        \A c \in GainCells :
            active_gain_flags[c] = 1 => active_gain[c] = set_identity(corr_mode)

\* C3 witness: finalize_update has run with a hard-flagged cell present
\* whose parameters do not give the identity.
C3_Witness ==
    /\ AfterFinalizeUpdate
    /\ \E c \in GainCells :
        /\ active_gain_flags[c] = 1
        /\ param_to_gain(active_params[ParamCellOf(c)], scaled_cf[c[2]],
                         active_gain[c], corr_mode) # set_identity(corr_mode)

\* The j-th on-diagonal correlation of a gain element.
DiagCorr(j) == IF corr_mode = 4 THEN 3 * j ELSE j

\* C4: at the end of an iteration the on-diagonal gain of every unflagged
\* cell (t, f, a, d) is exp(i*(scaled_cf[f]*delay + offset)) of the
\* parameters at (t, f_map_param[f], a, d_map[d]).
C4_GainFromParams ==
    pc \in {"update_gain_flags", "stop_test"} =>
        \A c \in GainCells :
            active_gain_flags[c] = 0 =>
                LET p == active_params[<<c[1],
                             base_args.f_map_arr[1][c[2]][active_term],
                             c[3],
                             base_args.d_map_arr[active_term][c[4]]>>]
                IN  \A j \in 0 .. (NParam(corr_mode) \div 2) - 1 :
                        active_gain[c][DiagCorr(j)] =
                            [k |-> "exp",
                             ph |-> RAdd(RMul(scaled_cf[c[2]], p[2 * j + 1]),
                                         p[2 * j])]

\* C4 witness: a second iteration has ended with an unflagged cell whose
\* parameters were updated.
C4_Witness ==
    /\ pc = "stop_test"
    /\ loop_idx >= 1
    /\ \E c \in GainCells :
        /\ active_gain_flags[c] = 0
        /\ active_params[ParamCellOf(c)] # ScaledEntry(ParamCellOf(c))

\* C5: every computed update is halved once and added once: the parameters
\* are the scaled entry parameters plus half of every update applied so
\* far, and after finalize_update the update buffer holds the halved
\* update of this iteration.
C5_HalfStepOnce ==
    InLoop =>
        \A c \in ParamCells : \A i \in DOMAIN active_params[c] :
            /\ active_params[c][i] =
                   RAdd(ScaledEntry(c)[i], HalfSum(c, i, Applied))
            /\ AfterFinalizeUpdate =>
                   solver_imdry.update[c][i] =
                       RDiv(upd_hist[Applied][c][i], R(2))

\* C5 witness: two nonzero updates have been applied.
C5_Witness ==
    /\ AfterFinalizeUpdate
    /\ Applied >= 2
    /\ \E c \in ParamCells :
           \A k \in 1 .. 2 : upd_hist[k][c][0] # R(0)

C7_InputsUnchanged ==
    /\ base_args.data = entry.base_args.data
    /\ base_args.model = entry.base_args.model
    /\ base_args.weights = entry.base_args.weights
    /\ base_args.a1 = entry.base_args.a1
    /\ base_args.a2 = entry.base_args.a2
    /\ term_args.chan_freqs = entry.term_args.chan_freqs

\* C23: in each iteration the residual is recomputed exactly when the
\* chain has more than one term or the active term is direction-dependent;
\* a single direction-independent term never calls compute_residual_solver
\* and accumulates from the data tensor itself; a separate residual buffer
\* exists only for a direction-dependent term.
Recomputes == meta_args.dd_term \/ n_gains > 1

C23_ResidualRecomputed ==
    pc # "setup" =>
        /\ \A k \in 1 .. Len(calls) :
              calls[k] = "compute_jhj_jhr" =>
                  (Recomputes <=>
                      (k > 1 /\ calls[k - 1] = "compute_residual_solver"))
        /\ ~Recomputes => Count(calls, "compute_residual_solver") = 0
        /\ ~Recomputes => ResidualBuf = base_args.data
        /\ solver_imdry.residual_is_data <=> ~meta_args.dd_term
        /\ meta_args.dd_term =>
              DOMAIN solver_imdry.residual = DOMAIN base_args.data

\* C23 witness: a single direction-independent term has finished several
\* iterations.
C23_Witness ==
    /\ pc = "done"
    /\ ~Recomputes
    /\ Count(calls, "compute_jhj_jhr") >= 2

\* ------------------------------------------------ interval map properties
\* The bins of a finished map, the channels (unique times) of bin b, and
\* the summed width of channels i .. j.
BinOf == IF mp.axis = "freq" THEN mp.f_map_arr[1] ELSE mp.t_bin

Members(b) == {i \in DOMAIN BinOf : BinOf[i] = b}

LastBin == BinOf[mp.n_chan - 1]

RECURSIVE WidthSum(_, _)
WidthSum(i, j) == IF j < i THEN 0 ELSE mp.widths[j] + WidthSum(i, j - 1)

First(b) == CHOOSE i \in Members(b) : \A j \in Members(b) : i <= j

Last(b) == CHOOSE i \in Members(b) : \A j \in Members(b) : j <= i

\* Each channel has one bin, the first bin 0, each later one the bin of the
\* channel before it or that bin plus one.
StepsByOne(m, n) ==
    /\ DOMAIN m = 0 .. n - 1
    /\ m[0] = 0
    /\ \A i \in 1 .. n - 1 : m[i] \in {m[i - 1], m[i - 1] + 1}

\* C8: the frequency map returned by make_f_maps gives every channel
\* exactly one bin, the first channel bin 0, and each later channel the
\* bin of the previous channel or that bin plus one.
C8_ContiguousBins ==
    (mp.pc = "done" /\ mp.axis = "freq") =>
        /\ StepsByOne(mp.f_map_arr[0], mp.n_chan)
        /\ StepsByOne(mp.f_map_arr[1], mp.n_chan)

\* C8 witness: a finished float-interval map in which one channel stays in
\* the bin of the channel before it and another opens the next bin.
C8_Witness ==
    /\ mp.pc = "done"
    /\ mp.axis = "freq"
    /\ mp.interval.float
    /\ \E i, j \in 1 .. mp.n_chan - 1 :
        /\ mp.f_map_arr[1][i] = mp.f_map_arr[1][i - 1]
        /\ mp.f_map_arr[1][j] = mp.f_map_arr[1][j - 1] + 1

\* C9: every bin is a run of consecutive elements; with an integer interval
\* n every bin but the last holds exactly n elements and the last at most
\* n; with a float interval w every bin but the last sums to at least w and
\* no bin reaches w before its last element; the final bin is kept even
\* when it falls short.
C9_ShortestRuns ==
    mp.pc = "done" =>
        /\ DOMAIN BinOf = 0 .. mp.n_chan - 1
        /\ \A b \in 0 .. LastBin :
            /\ Members(b) # {}
            /\ Members(b) = First(b) .. Last(b)
            /\ IF mp.interval.float
               THEN /\ b < LastBin =>
                         WidthSum(First(b), Last(b)) >= mp.interval.v
                    /\ \A j \in First(b) .. Last(b) - 1 :
                         WidthSum(First(b), j) < mp.interval.v
               ELSE /\ b < LastBin =>
                         Cardinality(Members(b)) = mp.interval.v
                    /\ Cardinality(Members(b)) <= mp.interval.v

\* C9 witness: a finished float-interval frequency map with a bin of
\* several channels that is not the last, and a last bin that falls short.
C9_Witness ==
    /\ mp.pc = "done"
    /\ mp.axis = "freq"
    /\ mp.interval.float
    /\ LastBin >= 1
    /\ \E b \in 0 .. LastBin - 1 : Cardinality(Members(b)) >= 2
    /\ WidthSum(First(LastBin), Last(LastBin)) < mp.interval.v

\* C10: the direction map has one row per term in chain order and one
\* column per direction; the row of a direction-dependent term maps d to d,
\* the row of a direction-independent term maps every d to 0.
C10_DirectionMap ==
    /\ \A k \in 1 .. Len(cg.d_maps) :
        /\ DOMAIN cg.d_maps[k] = 0 .. cg.n_dir - 1
        /\ \A d \in 0 .. cg.n_dir - 1 :
            cg.d_maps[k][d] = IF cg.opts[k].direction_dependent THEN d ELSE 0
    /\ cg.pc = "done" =>
        /\ DOMAIN cg.d_map_arr = 0 .. Len(cg.opts) - 1
        /\ \A k \in 0 .. Len(cg.opts) - 1 :
            /\ DOMAIN cg.d_map_arr[k] = 0 .. cg.n_dir - 1
            /\ \A d \in 0 .. cg.n_dir - 1 :
                cg.d_map_arr[k][d] =
                    IF cg.opts[k + 1].direction_dependent THEN d ELSE 0

\* C10 witness: the finished maps of a chain of a direction-independent
\* and a direction-dependent term over several directions.
C10_Witness ==
    /\ cg.pc = "done"
    /\ cg.n_dir >= 2
    /\ Len(cg.opts) = 2
    /\ ~cg.opts[1].direction_dependent
    /\ cg.opts[2].direction_dependent
    /\ cg.d_map_arr[1][cg.n_dir - 1] = cg.n_dir - 1

\* --------------------------------------------- interval count properties
\* The values of one term in one chunk of a stacked map.
MapValues(arr, g) == {arr[r][g] : r \in DOMAIN arr}

\* n is the number of intervals of length ivl that cover len elements.
Covers(n, len, ivl) ==
    IF ivl = 0 THEN n = 1
    ELSE n * ivl >= len /\ (n - 1) * ivl < len

\* The counts of term g along one axis agree with the maps of that axis.
CountsAgree(counts, lens, ivl, map_arr, ipc, g) ==
    \A c \in DOMAIN lens :
        /\ Covers(counts[c], lens[c], ivl)
        /\ \A v \in MapValues(map_arr[c], g) : v \in 0 .. counts[c] - 1
        /\ counts[c] - 1 \in MapValues(map_arr[c], g)
        /\ ipc[c][g] = counts[c]

\* C11: for every chunk and every term the number of solution intervals
\* allocated along time (frequency) is ceil(unique times / t_int)
\* (ceil(channels / f_int)), 1 for an interval of 0, and equals one plus
\* the largest map value of the chunk, so every map value indexes inside
\* the gain; the gain's time_int (freq_int) dimension is the sum of the
\* counts over the chunks.
C11_IntervalCounts ==
    cg.pc = "chunked" =>
        \A k \in DOMAIN cg.opts :
            /\ CountsAgree(cg.gain_chunk_list[k].t, cg.utime_chunks,
                           cg.opts[k].time_interval, cg.t_map_arr, cg.tipc,
                           k - 1)
            /\ CountsAgree(cg.gain_chunk_list[k].f, cg.chan_chunks,
                           cg.opts[k].freq_interval, cg.f_map_arr, cg.fipc,
                           k - 1)
            /\ cg.gain_shape_list[k].n_t_int =
                   SeqSum(cg.gain_chunk_list[k].t)
            /\ cg.gain_shape_list[k].n_f_int =
                   SeqSum(cg.gain_chunk_list[k].f)

\* C11 witness: two time chunks of different sizes, a term whose time
\* interval does not divide the unique times of a chunk, and a second term.
C11_Witness ==
    /\ cg.pc = "chunked"
    /\ Len(cg.utime_chunks) = 2
    /\ cg.utime_chunks[1] # cg.utime_chunks[2]
    /\ Len(cg.opts) = 2
    /\ cg.opts[2].time_interval = 2
    /\ \E c \in 1 .. 2 :
        /\ cg.utime_chunks[c] % 2 = 1
        /\ cg.gain_chunk_list[2].t[c] = 2
    /\ Len(cg.chan_chunks) = 2

\* ---------------------------------------------------- chunking properties
\* The rows of row chunk i: the slab after the rows of the chunks before it.
ChunkRows(row_chunks, i) ==
    LET before == SeqSum(SubSeq(row_chunks, 1, i - 1))
    IN  before + 1 .. before + row_chunks[i]

\* The unique times of chunk i, all but the last chunk holding size times.
ChunkTimes(times, size, i) ==
    {times[k] : k \in {j \in DOMAIN times :
                          (i - 1) * size < j /\ j <= i * size}}

\* C12: integer_chunking cuts the sorted unique times into consecutive
\* chunks of time_chunk unique times, only the last possibly shorter, a
\* single chunk for time_chunk = 0; each row chunk counts the rows of the
\* unique times of its chunk, so unique-time chunks sum to the number of
\* unique times, row chunks to the number of rows, and no unique time has
\* rows in two chunks.
C12_IntegerChunking ==
    dh.pc = "done" =>
        LET uc == dh.chunking[1]
            rc == dh.chunking[2]
            times == SortedSeq({dh.time_col[r] : r \in DOMAIN dh.time_col})
            size == IF dh.input_ms_time_chunk = 0 THEN Len(times)
                    ELSE dh.input_ms_time_chunk
        IN  /\ Len(uc) >= 1
            /\ Len(rc) = Len(uc)
            /\ \A i \in 1 .. Len(uc) - 1 : uc[i] = size
            /\ uc[Len(uc)] \in 1 .. size
            /\ dh.input_ms_time_chunk = 0 => Len(uc) = 1
            /\ SeqSum(uc) = Len(times)
            /\ SeqSum(rc) = Len(dh.time_col)
            /\ \A i \in 1 .. Len(rc) :
                /\ rc[i] = Cardinality({r \in DOMAIN dh.time_col :
                               dh.time_col[r] \in ChunkTimes(times, size, i)})
                /\ \A r \in ChunkRows(rc, i) :
                       dh.time_col[r] \in ChunkTimes(times, size, i)

\* C12 witness: several chunks, the last one shorter, over unique times
\* with different numbers of rows.
C12_Witness ==
    /\ dh.pc = "done"
    /\ Len(dh.utime_chunks) >= 2
    /\ dh.utime_chunks[Len(dh.utime_chunks)] < dh.utime_chunks[1]
    /\ \E j, k \in DOMAIN dh.ucounts : dh.ucounts[j] # dh.ucounts[k]
    /\ dh.row_chunks[1] > dh.utime_chunks[1]

\* C19: when an antenna has no unflagged visibility in a solution interval,
\* the solve ends with that cell flagged and its gain the identity, and the
\* solver still returns gains, flags and convergence values for the other
\* cells; the iteration count stays below the limit, so the loop ends.
NoData(c) ==
    ~ \E rf \in DOMAIN entry.base_args.flags :
        /\ entry.base_args.flags[rf] = 0
        /\ base_args.t_map_arr[0][rf[1]][active_term] = c[1]
        /\ base_args.f_map_arr[0][rf[2]][active_term] = c[2]
        /\ c[3] \in {base_args.a1[rf[1]], base_args.a2[rf[1]]}

DegenerateHandled ==
    /\ \A c \in GainCells :
        /\ NoData(c) =>
              /\ active_gain_flags[c] = 1
              /\ active_gain[c] = set_identity(corr_mode)
        /\ active_gain_flags[c] \in {0, 1}
        /\ DOMAIN active_gain[c] = Corrs(corr_mode)
        /\ \A k \in Corrs(corr_mode) : active_gain[c][k].k \in {"exp", "zero"}
    /\ ret.conv_iters \in 1 .. MaxIter
    /\ ~RLt(ret.conv_perc, R(0))
    /\ ~RGt(ret.conv_perc, R(1))

C19_DegenerateInterval ==
    /\ pc = "done" => DegenerateHandled
    /\ pc # "idle" => loop_idx < meta_args.iters

\* C19 witness: a solve of more than one iteration has returned with a cell
\* that had no data and a cell that had.
C19_Witness ==
    /\ pc = "done"
    /\ ret.conv_iters > 1
    /\ \E c, e \in GainCells :
        /\ NoData(c)
        /\ ~NoData(e) /\ active_gain_flags[e] = 0

\* C20: on a converged chunk a second run of the finalisation (promotion
\* of soft flags, gain flags onto parameter flags, gain flags onto the data
\* flags of a direction-independent term) changes no gain, flag or
\* parameter.
Converged == RGt(conv_perc, meta_args.stop_frac)

SecondPassOver == pc = "return" /\ Finalisations = 2

C20_FinalisationIdempotent ==
    (SecondPassOver /\ Converged) =>
        /\ base_args.gains = gx.base_args.gains
        /\ base_args.gain_flags = gx.base_args.gain_flags
        /\ base_args.flags = gx.base_args.flags
        /\ term_args.params = gx.term_args.params
        /\ term_args.param_flags = gx.term_args.param_flags

\* C20 witness: the second pass is over on a converged chunk of a
\* direction-independent term with a hard-flagged gain cell, a flagged
\* parameter cell and an unflagged gain cell.
C20_Witness ==
    /\ SecondPassOver
    /\ Converged
    /\ ~meta_args.dd_term
    /\ calls[Len(calls)] = "apply_gain_flags"
    /\ \E c, e \in GainCells :
        active_gain_flags[c] = 1 /\ active_gain_flags[e] = 0
    /\ \E p \in ParamCells : term_args.param_flags[active_term][p] = 1

\* ------------------------------------------------------- flag properties
\* C13: the MAD flagging step never clears a flag: a visibility flagged
\* before it is flagged after it, a visibility the flagger marks ends
\* flagged, and the flag of a visibility it does not mark is unchanged.
C13_MadMonotone ==
    dh.pc = "flagged" =>
        \A v \in MadVis :
            /\ dh.FLAG[v] # 0 => dh.flagged_FLAG[v] # 0
            /\ dh.mad_flags[v] # 0 => dh.flagged_FLAG[v] # 0
            /\ dh.mad_flags[v] = 0 => dh.flagged_FLAG[v] = dh.FLAG[v]

\* C13 witness: the flagger has marked a visibility that carried a
\* temporary flag and left alone one that was flagged.
C13_Witness ==
    /\ dh.pc = "flagged"
    /\ \E v, w \in MadVis :
        /\ dh.FLAG[v] = -1 /\ dh.mad_flags[v] # 0
        /\ dh.FLAG[w] = 1 /\ dh.mad_flags[w] = 0

\* C14: the aggregate flag of a visibility is 1 exactly when an input flag
\* is set on one of its correlations, its row is flagged, or the data or
\* the weight of its first or last correlation is zero; otherwise it is 0.
FlagCause(v) ==
    \/ \E c \in 0 .. dh.n_corr - 1 : dh.FLAG[<<v[1], v[2], c>>] = 1
    \/ dh.FLAG_ROW[v[1]] = 1
    \/ dh.data_col[<<v[1], v[2], 0>>] = "0"
    \/ dh.data_col[<<v[1], v[2], dh.n_corr - 1>>] = "0"
    \/ dh.init_weight[<<v[1], v[2], 0>>] = "0"
    \/ dh.init_weight[<<v[1], v[2], dh.n_corr - 1>>] = "0"

C14_AggregateFlag ==
    dh.pc \in {"where", "weights", "ValueError"} =>
        \A v \in Idx2(dh.n_row, dh.n_chan) :
            dh.flag_col[v] = IF FlagCause(v) THEN 1 ELSE 0

\* C14 witness: of four correlations the weight of the last alone is zero,
\* nothing else is wrong with the visibility, and it is flagged.
C14_Witness ==
    /\ dh.pc = "where"
    /\ dh.n_corr = 4
    /\ dh.init_weight[<<dh.vis[1], dh.vis[2], 3>>] = "0"
    /\ \A c \in 0 .. 3 : dh.FLAG[<<dh.vis[1], dh.vis[2], c>>] = 0
    /\ dh.FLAG_ROW[dh.vis[1]] = 0
    /\ \A c \in 0 .. 3 : dh.data_col[<<dh.vis[1], dh.vis[2], c>>] = "1"
    /\ dh.flag_col[dh.vis] = 1

\* C15: a visibility with a non-finite value in its data or weights, in any
\* correlation, is flagged by preprocessing.
C15_NonFiniteFlagged ==
    dh.pc \in {"where", "weights", "ValueError"} =>
        \A v \in Idx2(dh.n_row, dh.n_chan) :
            (\E c \in 0 .. dh.n_corr - 1 :
                \/ ~isfinite(dh.DATA[<<v[1], v[2], c>>])
                \/ ~isfinite(dh.init_weight[<<v[1], v[2], c>>]))
            => dh.flag_col[v] # 0

\* C16: after preprocessing every correlation of a flagged visibility has
\* weight 0, and an unflagged visibility keeps its initialised weights.
C16_FlaggedWeightsZero ==
    dh.pc = "weights" =>
        /\ dh.weight_col.shape = <<dh.n_row, dh.n_chan, dh.n_corr>>
        /\ \A i \in Idx3(dh.n_row, dh.n_chan, dh.n_corr) :
            dh.weight_col.arr[i] =
                IF dh.flag_col[<<i[1], i[2]>>] # 0 THEN "0"
                ELSE dh.init_weight[i]

\* ---------------------------------------------------- assembly properties
\* C17: an unsupported number of correlations is rejected with ValueError
\* before any chunk is solved: by read_xds_list when the measurement set
\* has other than 1, 2 or 4 correlations or the mode is "full" on fewer
\* than four, and by the delay kernels when specialised for a mode other
\* than 1, 2 or 4; no gains are produced.
Unsupported ==
    \/ /\ gx.entry_point = "read_xds_list"
       /\ \/ gx._ms_ncorr \notin {1, 2, 4}
          \/ gx.correlation_mode = "full" /\ gx._ms_ncorr # 4
    \/ /\ gx.entry_point = "delay_solver"
       /\ gx.corr_mode \notin {1, 2, 4}

C17_UnsupportedCorrRejected ==
    Unsupported =>
        /\ gx.gains = <<>>
        /\ gx.pc \in {"read_xds_list", "select", "specialise", "raised"}
        /\ gx.pc = "select" => gx._ms_ncorr \in {1, 2, 4}
        /\ gx.pc = "raised" => gx.error = "ValueError"

\* C17 witness: "full" was asked of a measurement set with two
\* correlations and read_xds_list has raised.
C17_Witness ==
    /\ gx.pc = "raised"
    /\ gx.entry_point = "read_xds_list"
    /\ gx.correlation_mode = "full"
    /\ gx._ms_ncorr = 2

\* C18: each of the seven term types of the chain specification resolves
\* to an implementation, and any other name fails assembly before solving.
SevenVariants ==
    {"complex", "phase", "delay", "slow_complex", "slow_delay",
     "rotation_measure", "parallactic_angle"}

C18_SevenTermTypes ==
    /\ gx.error = "KeyError" => gx.chain[gx.term_ind] \notin SevenVariants
    /\ gx.pc \in {"specialise", "solve", "solved"} =>
          \A k \in DOMAIN gx.chain : gx.chain[k] \in SevenVariants

\* ------------------------------------------------------ prange properties
\* C21: the flat loop index maps one-to-one onto the solution intervals,
\* an iteration writes only the JHJ and update entries of its own interval,
\* so no two iterations write the same element, and the final buffers are
\* the same for every interleaving.
FlatOf(c) == c[1] * mp.n_fint + c[2]

SerialJhj(c) ==
    {v \in DOMAIN mp.flags :
        /\ mp.flags[v] = 0
        /\ \E k \in DOMAIN PrRows(c[1], mp.n_tint) :
              PrRows(c[1], mp.n_tint)[k] = v[1]
        /\ v[2] = c[2]
        /\ c[3] \in {PrAnt1(v[1]), PrAnt2(v[1])}}

C21_DisjointIntervalWrites ==
    /\ \A i, j \in DOMAIN mp.pos :
          interval_of(i, mp.n_fint) = interval_of(j, mp.n_fint) => i = j
    /\ \A i \in DOMAIN mp.pos :
          interval_of(i, mp.n_fint)
              \in (0 .. mp.n_tint - 1) \X (0 .. mp.n_fint - 1)
    /\ \A c \in DOMAIN mp.jhj :
          /\ mp.jhj_writers[c] \subseteq {FlatOf(c)}
          /\ mp.update_writers[c] \subseteq {FlatOf(c)}
    /\ mp.pc \in {"compute_update", "done"} =>
          \A c \in DOMAIN mp.jhj : mp.jhj[c] = SerialJhj(c)
    /\ mp.pc = "done" =>
          \A c \in DOMAIN mp.jhj : mp.update[c] = <<"invert", SerialJhj(c)>>

\* C21 witness: with four intervals, two iterations are both between the
\* read and the write of an accumulation while a third has already
\* written its cells.
C21_Witness ==
    /\ mp.pc = "compute_jhj_jhr"
    /\ mp.n_tint = 2 /\ mp.n_fint = 2
    /\ \E i, j, k \in DOMAIN mp.pos :
        /\ i # j
        /\ mp.pos[i] % 2 = 1
        /\ mp.pos[j] % 2 = 1
        /\ mp.pos[k] > 0
        /\ mp.pos[k] = 2 * Len(PrOps(interval_of(k, mp.n_fint), mp.n_tint, mp.flags))

\* C22: make_visibility_output adds to every data set exactly three
\* outputs: _RESIDUAL from data, model and gains, _CORRECTED_RESIDUAL by
\* the inverse-chain operator on _RESIDUAL, _CORRECTED_DATA by the same
\* operator with the same gains and maps on DATA; each with the row and
\* channel chunks of DATA; the input columns stay in place.
C22_ThreeOutputs ==
    gx.pc = "returned" =>
        /\ Len(gx.post_solve_data_xds_list) = Len(gx.data_xds_list)
        /\ \A k \in DOMAIN gx.data_xds_list :
            LET in == gx.data_xds_list[k].vars
                out == gx.post_solve_data_xds_list[k].vars
                res == out["_RESIDUAL"]
                cres == out["_CORRECTED_RESIDUAL"]
                cdata == out["_CORRECTED_DATA"]
            IN  /\ DOMAIN out = DOMAIN in \cup
                     {"_RESIDUAL", "_CORRECTED_RESIDUAL", "_CORRECTED_DATA"}
                /\ \A n \in DOMAIN in : out[n] = in[n]
                /\ res.op = "dask_residual"
                /\ res.args[1] = in["DATA"]
                /\ res.args[2] = in["MODEL_DATA"]
                /\ \A g \in 1 .. gx.n_term :
                      \E a \in DOMAIN res.args :
                          res.args[a] = Column("gains", k, <<g>>)
                /\ cres.op = "dask_corrected_residual"
                /\ cres.args[1] = res
                /\ cdata.op = cres.op
                /\ cdata.args[1] = in["DATA"]
                /\ Tail(cdata.args) = Tail(cres.args)
                /\ \A o \in {res, cres, cdata} :
                      o.chunks = in["DATA"].chunks

\* C22 witness: two data sets of different chunking, one of them BDA, and
\* a chain of two terms have been given their outputs.
C22_Witness ==
    /\ gx.pc = "returned"
    /\ gx.n_term = 2
    /\ Len(gx.data_xds_list) = 2
    /\ "ROW_MAP" \in DOMAIN gx.data_xds_list[1].vars
    /\ "ROW_MAP" \notin DOMAIN gx.data_xds_list[2].vars
    /\ gx.data_xds_list[1].vars["DATA"].chunks
          # gx.data_xds_list[2].vars["DATA"].chunks
    /\ "_CORRECTED_DATA" \in DOMAIN gx.post_solve_data_xds_list[2].vars

\* C24: compute_jhj_jhr adds nothing for a visibility whose aggregate flag
\* is nonzero, and an unflagged visibility is accumulated into exactly two
\* cells, those of its two antennas in the interval that contains it; no
\* other antenna's or interval's cell is changed by it.
PrBin(v) == <<IF v[1] < mp.n_tint THEN v[1] ELSE mp.n_tint - 1, v[2]>>

CellsWith(v) == {c \in DOMAIN mp.jhj : v \in mp.jhj[c]}

C24_TwoCellsPerVisibility ==
    /\ \A v \in DOMAIN mp.flags :
          CellsWith(v) \subseteq
              {<<PrBin(v)[1], PrBin(v)[2], a>> :
                  a \in {PrAnt1(v[1]), PrAnt2(v[1])}}
    /\ \A v \in DOMAIN mp.flags : mp.flags[v] # 0 => CellsWith(v) = {}
    /\ mp.pc \in {"compute_update", "done"} =>
          \A v \in DOMAIN mp.flags :
              mp.flags[v] = 0 =>
                  CellsWith(v) =
                      {<<PrBin(v)[1], PrBin(v)[2], a>> :
                          a \in {PrAnt1(v[1]), PrAnt2(v[1])}}

\* C24 witness: the accumulation is over for a chunk with a soft-flagged
\* visibility in an interval of two rows, the other row accumulated.
C24_Witness ==
    /\ mp.pc = "compute_update"
    /\ mp.n_fint = 2
    /\ mp.flags[<<mp.n_tint, 0>>] = -1
    /\ CellsWith(<<mp.n_tint - 1, 0>>) # {}

\* C30: when compute_jhj_jhr returns, the JHJ and JHR buffers hold the
\* contributions of the current iteration only: a cell without an unflagged
\* visibility is zero, and nothing of the previous iteration or of the
\* uninitialised allocation is left in any cell.
JustAccumulated == calls # <<>> /\ calls[Len(calls)] = "compute_jhj_jhr"

C30_BuffersReset ==
    JustAccumulated =>
        \A c \in ParamCells :
            /\ solver_imdry.jhj[c] = Contributors(c)
            /\ solver_imdry.jhr[c] =
                   {<<rf, ResidualBuf[rf]>> : rf \in Contributors(c)}
            /\ Contributors(c) = {} =>
                   solver_imdry.jhj[c] = {} /\ solver_imdry.jhr[c] = {}

\* C30 witness: the second call of compute_jhj_jhr has returned, and some
\* cell has no contribution while another has one.
C30_Witness ==
    /\ JustAccumulated
    /\ Count(calls, "compute_jhj_jhr") = 2
    /\ \E c \in ParamCells : Contributors(c) = {}
    /\ \E c \in ParamCells : solver_imdry.jhr[c] # {}

\* C25: expand_specs returns one entry per (time chunk, frequency chunk)
\* pair in time-chunk-major order; each entry has one term spec per gain
\* term in chain order, and the spec of term k for the pair (i, j) has the
\* shape (tchunk_k[i], fchunk_k[j], n_ant, n_dir_k, n_corr) with the name
\* and type of the term.
C25_ExpandSpecs ==
    cg.pc = "done" =>
        LET n_t == Len(cg.gain_xds_list[1].CHUNK_SPEC.tchunk)
            n_f == Len(cg.gain_xds_list[1].CHUNK_SPEC.fchunk)
        IN  /\ Len(cg.spec_list) = n_t * n_f
            /\ \A i \in 1 .. n_t, j \in 1 .. n_f :
                  LET e == cg.spec_list[(i - 1) * n_f + j]
                  IN  /\ Len(e) = Len(cg.gain_xds_list)
                      /\ \A k \in DOMAIN cg.gain_xds_list :
                            LET gxds == cg.gain_xds_list[k]
                            IN  /\ e[k].name = gxds.NAME
                                /\ e[k].type = gxds.TYPE
                                /\ e[k].shape =
                                     <<gxds.CHUNK_SPEC.tchunk[i],
                                       gxds.CHUNK_SPEC.fchunk[j],
                                       gxds.CHUNK_SPEC.achunk[1],
                                       gxds.CHUNK_SPEC.dchunk[1],
                                       gxds.CHUNK_SPEC.cchunk[1]>>

\* C25 witness: two terms over two by two chunks, the first term with
\* different interval counts in its two time chunks and the terms with
\* different numbers of directions.
C25_Witness ==
    /\ cg.pc = "done"
    /\ Len(cg.spec_list) = 4
    /\ Len(cg.gain_xds_list) = 2
    /\ cg.gain_xds_list[1].CHUNK_SPEC.tchunk = <<1, 2>>
    /\ cg.gain_xds_list[1].CHUNK_SPEC.fchunk = <<2, 2>>
    /\ cg.gain_xds_list[1].CHUNK_SPEC.dchunk # cg.gain_xds_list[2].CHUNK_SPEC.dchunk

\* C26: finalise_flags writes FLAG true for a visibility exactly when its
\* aggregate flag is neither 0 nor -1, the same on every correlation, and
\* FLAG_ROW true exactly when every channel and correlation of the row is
\* flagged; a visibility that started with the temporary flag -1 is written
\* as flagged only if the MAD flagger marked it.
C26_FinalFlags ==
    dh.pc = "write_xds_list" =>
        /\ \A v \in FinVis, c \in 0 .. dh.n_corr - 1 :
              dh.out_FLAG[<<v[1], v[2], c>>] <=> dh.FLAG[v] \notin {0, -1}
        /\ \A r \in 0 .. FinRows - 1 :
              dh.out_FLAG_ROW[r] <=>
                  \A f \in 0 .. FinChans - 1, c \in 0 .. dh.n_corr - 1 :
                      dh.out_FLAG[<<r, f, c>>]
        /\ \A v \in FinVis :
              dh.init_FLAG[v] = -1 /\ dh.out_FLAG[<<v[1], v[2], 0>>] =>
                  dh.enable /\ dh.mad_flags[v] # 0

\* C26 witness: of two visibilities of row 0 that carried the temporary
\* flag, the one the MAD flagger marked is written as flagged and the other
\* is not, while row 1 is flagged throughout.
C26_Witness ==
    /\ dh.pc = "write_xds_list"
    /\ dh.n_corr = 2
    /\ dh.init_FLAG[<<0, 0>>] = -1 /\ dh.mad_flags[<<0, 0>>] # 0
    /\ dh.init_FLAG[<<0, 1>>] = -1 /\ dh.mad_flags[<<0, 1>>] = 0
    /\ dh.out_FLAG[<<0, 0, 1>>] /\ ~dh.out_FLAG[<<0, 1, 1>>]
    /\ ~dh.out_FLAG_ROW[0] /\ dh.out_FLAG_ROW[1]

\* C27: for strictly increasing targets xx and a non-empty selection x of
\* them with values y, linterp ends after at most len(xx) + len(x) passes,
\* reads no array out of bounds, writes every output once, and returns y[k]
\* at x[k], y[0] below x[0], y[-1] above x[-1] and the linear interpolation
\* between the two neighbouring knots elsewhere.
Knot(t) == CHOOSE k \in DOMAIN mp.x :
               /\ mp.x[k] <= t
               /\ \A j \in DOMAIN mp.x : mp.x[j] <= t => j <= k

Interpolated(t) ==
    IF t < mp.x[1] THEN R(mp.y[1])
    ELSE IF t > mp.x[Len(mp.x)] THEN R(mp.y[Len(mp.y)])
    ELSE IF mp.x[Knot(t)] = t THEN R(mp.y[Knot(t)])
    ELSE LET k == Knot(t)
         IN  RAdd(R(mp.y[k]),
                  RDiv(RMul(R(mp.y[k + 1] - mp.y[k]), R(t - mp.x[k])),
                       R(mp.x[k + 1] - mp.x[k])))

C27_Linterp ==
    /\ ~mp.oob
    /\ mp.xi < Len(mp.x)
    /\ mp.steps <= Len(mp.xx) + Len(mp.x) - 1
    /\ \A k \in DOMAIN mp.xx :
          /\ mp.writes[k] = (IF k <= mp.xxi THEN 1 ELSE 0)
          /\ k <= mp.xxi => mp.yy[k] = Interpolated(mp.xx[k])

\* C27 witness: linterp has returned for four targets with samples at the
\* second and the last, of different values, so that one target was
\* extended from the first sample and one interpolated.
C27_Witness ==
    /\ mp.pc = "return"
    /\ mp.xx = <<0, 1, 2, 3>>
    /\ mp.x = <<1, 3>>
    /\ mp.y = <<3, 0>>
    /\ mp.yy = <<R(3), R(3), <<3, 2>>, R(0)>>

\* C28: with a duration as time chunk, the unique times are grouped by
\* floor(cumulative interval since the first unique time / time_chunk), and
\* row chunk i is the row count of exactly the unique times of group i: the
\* row chunks sum to the number of rows and their boundaries are group
\* boundaries, whatever the sizes of the groups.
GroupOf(k) ==
    (SeqSum([j \in 1 .. k |-> dh.interval_col[np_unique_index(dh.time_col)[j] + 1]])
     - dh.interval_col[1]) \div dh.time_chunk

Groups == SortedSeq({GroupOf(k) : k \in DOMAIN dh.utimes})

GroupRows(g) ==
    Cardinality({r \in DOMAIN dh.time_col :
                    \E k \in DOMAIN dh.utimes :
                        dh.utimes[k] = dh.time_col[r] /\ GroupOf(k) = g})

C28_DurationChunks ==
    dh.pc = "done" =>
        /\ Len(dh.row_chunks) = Len(Groups)
        /\ \A i \in DOMAIN Groups : dh.row_chunks[i] = GroupRows(Groups[i])
        /\ SeqSum(dh.row_chunks) = Len(dh.time_col)

\* C29: with at least one worker, update_graph forms for each solver task
\* the group of that task, its transitive dependencies and its transitive
\* dependents, gives each group in turn to a worker of least accumulated
\* load, adds that worker to the restrictions of every known task of the
\* group and sets its loose_restrictions to False; restrictions are only
\* added, a task of several groups gets the union of their workers, and a
\* task outside every group is left as it was.
RECURSIVE Grow(_, _)
\* The tasks that some task of S depends on through at most n edges.
Grow(S, n) ==
    IF n = 0 THEN S
    ELSE Grow(S \cup UNION {gx.dependencies[u] : u \in S}, n - 1)

DependsOn(a, b) == a # b /\ b \in Grow({a}, MaxTasks)

GroupOfSolver(st) ==
    {t \in 1 .. MaxTasks : t = st \/ DependsOn(st, t) \/ DependsOn(t, st)}

LoadBefore(w, k) ==
    SeqSum([j \in 1 .. k - 1 |->
               IF gx.assignees[j] = w
               THEN Cardinality(gx.solver_task_groups[j]) ELSE 0])

WorkersOf(t) ==
    {gx.assignees[k] : k \in {j \in DOMAIN gx.assignees :
                                 t \in gx.solver_task_groups[j]}}

C29_ScatterSolvers ==
    gx.pc # "solver_task_groups" =>
        /\ Len(gx.solver_task_groups) = Len(gx.solver_tasks)
        /\ \A k \in DOMAIN gx.solver_tasks :
              gx.solver_task_groups[k] = GroupOfSolver(gx.solver_tasks[k])
        /\ gx.pc = "done" => Len(gx.assignees) = Len(gx.solver_task_groups)
        /\ \A k \in DOMAIN gx.assignees :
              /\ gx.assignees[k] \in DOMAIN gx.workers
              /\ \A w \in DOMAIN gx.workers :
                    LoadBefore(gx.assignees[k], k) <= LoadBefore(w, k)
        /\ \A t \in gx.tasks :
              /\ gx.worker_restrictions[t] =
                    (IF WorkersOf(t) = {} THEN gx.init_restrictions
                     ELSE IF gx.init_restrictions = None THEN <<WorkersOf(t)>>
                     ELSE <<gx.init_restrictions[1] \cup WorkersOf(t)>>)
              /\ gx.loose_restrictions[t] =
                    (IF WorkersOf(t) = {} THEN "unset" ELSE "False")
        /\ DOMAIN gx.worker_restrictions = gx.tasks

\* C29 witness: two workers and two solver tasks that share a dependency;
\* the groups went to different workers, the shared task is restricted to
\* both and a task outside both groups is untouched.
C29_Witness ==
    /\ gx.pc = "done"
    /\ Len(gx.workers) = 2
    /\ gx.solver_tasks = <<2, 3>>
    /\ gx.dependencies[2] = {1} /\ gx.dependencies[3] = {1}
    /\ gx.dependencies[4] = {}
    /\ gx.tasks = 1 .. MaxTasks
    /\ gx.assignees = <<1, 2>>
    /\ gx.worker_restrictions[1] = <<{1, 2}>>
    /\ gx.worker_restrictions[4] = None
    /\ gx.loose_restrictions[4] = "unset"

====
